---- MODULE Spec2Model ----
(***************************************************************************)
(* A model of pi-home-dash: the IT8951 display refresh controller          *)
(* (src/src/display/it8951_driver.py), the update cycle and its render     *)
(* session recovery (src/src/main.py, src/src/dashboard/renderer.py) and   *)
(* the update scheduler (src/src/main.py).                                 *)
(***************************************************************************)
EXTENDS Integers, Sequences, FiniteSets, TLC

(***************************************************************************)
(* Bounds of the model.                                                    *)
(***************************************************************************)
\* eink_partial_refresh_limit ranges over 1..MaxLimit
MaxLimit == 2
\* number of driver operations in one run
MaxCalls == 5
\* direct_partial_refresh is not offered once the counter has reached this
MaxCount == 4
\* number of update_display cycles in one run
MaxCycles == 2
\* the reference times of _calculate_next_update_time are 0..MaxT
MaxT == 3900
\* run_continuous is followed until the clock reaches MaxClock
MaxClock == 480
\* number of updates in the run with eink_partial_refresh_limit = RunLimit
MaxCommits == 13
\* passes of the while loop of run_continuous in which update_display is
\* followed step by step; of the pass after these only the call is
MaxPasses == 1

\* settings.eink_partial_refresh_limit in that run
RunLimit == 10

None == "None"

(***************************************************************************)
(* Images.  The panel is split in two areas; an image gives each area a    *)
(* level (0 black, 1 white).  The callers hand over display-sized 'L'      *)
(* images, for which _process_image returns its argument (neither the      *)
(* resize nor the convert branch is taken).                                *)
(***************************************************************************)
Cells == {"a", "b"}
AllImages == {"BB", "BW", "WB", "WW"}
Black == "BB"
White == "WW"
\* the images the callers hand over
Images == {Black, White}
\* a region (x, y, w, h) is modelled by the area it covers
Regions == Cells

\* the level of each area of an image
pixels(img) ==
    [c \in Cells |->
        IF c = "a" THEN (IF img \in {"WB", "WW"} THEN 1 ELSE 0)
                   ELSE (IF img \in {"BW", "WW"} THEN 1 ELSE 0)]

\* Image.paste(cropped, (x, y)) / frame_buf.paste(img, (0, 0))
paste(buf, img, region) ==
    LET px == [c \in Cells |->
                  IF region = None \/ c = region THEN pixels(img)[c]
                                                ELSE pixels(buf)[c]]
    IN  CHOOSE i \in AllImages : pixels(i) = px

_process_image(image) == image

(***************************************************************************)
(* State.                                                                  *)
(***************************************************************************)
VARIABLES
    limit,      \* settings.eink_partial_refresh_limit
    drv,        \* the drivers: one in simulation, one on hardware, same calls
    lastRes,    \* per driver, what the last operation did
    nCalls,     \* operations called so far (also the reading of time.time())
    plain,      \* per driver: every call so far was a successful unforced update
    onlyUpd,    \* every call so far was update()
    hwOk,       \* the hardware driver is initialised and no panel write raised
    committed,  \* per driver: some update() has returned True
    epd,        \* the EInkDriver, given the same update and clear calls
    epdRes,     \* what its last operation did
    settings,   \* dashboard_type, and whether the page to show is configured
    rd,         \* the DashboardRenderer: its handles and the browsers left open
    persistent_browser_enabled,
    browser_refresh_count,
    metrics,    \* dashboard_updates_total per status
    pc,         \* where update_display stands
    attempt,    \* the attempt of _initialize_persistent_browser_with_retry
    phase,      \* which call of it runs: "init" or "recover"
    log,        \* the calls update_display has made in the current cycle
    result,     \* what the last update_display returned
    cycles,     \* cycles finished
    update_interval,        \* settings.update_interval, in seconds
    clock,                  \* the wall clock (datetime.now()), in seconds
    intended_update_time,   \* run_continuous: NoTime while None
    is_first_update,        \* run_continuous
    spc,                    \* run_continuous: "run", "sleep", "stopped" or "ended"
    passes,                 \* passes of its while loop completed
    wake,                   \* the end of the time.sleep in progress
    last,                   \* what the last iteration of the loop did
    c_t,                    \* the argument of _calculate_next_update_time
    c_out,                  \* and its result, NoTime before the call
    mpc,        \* where main() stands
    exit_code,  \* the argument of the sys.exit main() has called, or NoExit
    telemetry,  \* the labels recorded by the last cycle's timers
    display_size,   \* <<settings.display_width, settings.display_height>>
    browser_size,   \* <<settings.browser_width, settings.browser_height>>
    viewport,       \* the viewport of the context the last session start
                    \* launched, NoSize when it launched none
    vpc,            \* PiHomeDashboard.__init__: "display" before the driver
                    \* is constructed, "ready" after; "reloaded" once
                    \* load_from_file has been called
    starts,         \* session starts attempted
    epd_mode,           \* settings.epd_mode
    display_rotation,   \* settings.display_rotation
    ip_image,   \* the image handed to the ImageProcessor, or NoImage
    ip_fault,   \* the step of the pipeline that raises, or "none"
    ip_out,     \* what process_for_eink returned, Pending before
    ip_prev,    \* what the previous _apply_dithering call returned, or NoImage
    ip_run,     \* the results of the runs of _apply_dithering on ip_image
    shots,      \* screenshots/dashboard_*.png: name, st_mtime and frame
    latest,     \* the frame in screenshots/latest.png, 0 while there is none
    saved,      \* the file written by the last _save_persistent_screenshot
    nSaves,     \* frames saved so far (they are numbered)
    shotclock,  \* datetime.now() of the last save, in seconds
    unlinked,   \* every unlink() so far succeeded
    temp_dir,   \* temp/display_update_*.png: the names of the files
    simclock,   \* int(time.time()) of the last simulated update
    tv_system,  \* TimeValidator: datetime.now(), its hour, minute, second
    tv_text,    \* the clock text found in the page
    tv_out      \* the validation result, NotValidated before the call

drvVars == <<limit, drv, lastRes, nCalls, plain, onlyUpd, hwOk, committed,
             epd, epdRes>>

schVars == <<update_interval, clock, intended_update_time, is_first_update,
             spc, passes, wake, last, c_t, c_out>>

cycVars == <<settings, rd, persistent_browser_enabled, browser_refresh_count,
             metrics, pc, attempt, phase, log, result, cycles>>

vars == <<limit, drv, lastRes, nCalls, plain, onlyUpd, hwOk, committed,
          epd, epdRes,
          settings, rd, persistent_browser_enabled, browser_refresh_count,
          metrics, pc, attempt, phase, log, result, cycles,
          update_interval, clock, intended_update_time, is_first_update,
          spc, passes, wake, last, c_t, c_out,
          mpc, exit_code, telemetry,
          display_size, browser_size, viewport, vpc, starts,
          epd_mode, display_rotation, ip_image, ip_fault, ip_out, ip_prev,
          ip_run,
          shots, latest, saved, nSaves, shotclock, unlinked,
          temp_dir, simclock, tv_system, tv_text, tv_out>>

mainVars == <<mpc, exit_code, telemetry>>

viewVars == <<display_size, browser_size, viewport, vpc, starts>>

imgVars == <<epd_mode, display_rotation, ip_image, ip_fault, ip_out, ip_prev,
             ip_run>>

shotVars == <<shots, latest, saved, nSaves, shotclock, unlinked>>

simVars == <<temp_dir, simclock>>

tvVars == <<tv_system, tv_text, tv_out>>

extVars == <<mainVars, viewVars, imgVars, shotVars, simVars, tvVars>>

Drivers == {"sim", "hw"}

\* outcome of the panel calls of one operation
PanelOutcomes == {"ok", "paste_raises", "draw_raises"}

\* IT8951Driver.__init__
NewDriver(mock, lib, hwinit) ==
    [ mock_mode             |-> mock,
      IT8951_AVAILABLE      |-> lib,
      hardware_initialized  |-> hwinit,
      partial_refresh_count |-> 0,
      last_update_time      |-> 0,
      last_image            |-> None,
      frame_buf             |-> White ]

simulated(self) == self.mock_mode \/ ~self.IT8951_AVAILABLE

\* need_full_refresh with the limit compared by > (one partial refresh too many)
need_full_refresh_gt(self, force_full_refresh) ==
    \/ force_full_refresh
    \/ self.partial_refresh_count > limit
    \/ self.last_image = None

\* need_full_refresh without the first-frame test
need_full_refresh_no_first(self, force_full_refresh) ==
    \/ force_full_refresh
    \/ self.partial_refresh_count >= limit

\* update: "Check if we need a full refresh"
need_full_refresh(self, force_full_refresh) ==
    \/ force_full_refresh
    \/ self.partial_refresh_count >= limit
    \/ self.last_image = None

Res(self, ret, kind) == [self |-> self, ret |-> ret, kind |-> kind]

\* update: "Update refresh counter for simulation too"
sim_counter(self, full) ==
    [self EXCEPT !.partial_refresh_count = IF full THEN 0 ELSE @ + 1]

\* _simulate_update: saves the image (a failure to save is caught), returns True
_simulate_update(self, image, full, region) == TRUE

\* the "Full refresh" branch without the reset of the counter
hw_full_no_reset(self, processed, panel) ==
    IF panel = "paste_raises" THEN Res(self, FALSE, "none")
    ELSE LET s1 == [self EXCEPT !.frame_buf = paste(@, processed, None)]
         IN  IF panel = "draw_raises" THEN Res(s1, FALSE, "none")
             ELSE Res(s1, TRUE, "full")

\* update: the "Full refresh" branch
hw_full(self, processed, panel) ==
    IF panel = "paste_raises" THEN Res(self, FALSE, "none")
    ELSE LET s1 == [self EXCEPT !.frame_buf = paste(@, processed, None)]
         IN  IF panel = "draw_raises" THEN Res(s1, FALSE, "none")
             ELSE Res([s1 EXCEPT !.partial_refresh_count = 0], TRUE, "full")

\* update: the "Partial refresh" branch, with or without a region
hw_partial(self, processed, region, panel) ==
    IF panel = "paste_raises" THEN Res(self, FALSE, "none")
    ELSE LET s1 == [self EXCEPT !.frame_buf = paste(@, processed, region)]
         IN  IF panel = "draw_raises" THEN Res(s1, FALSE, "none")
             ELSE Res([s1 EXCEPT !.partial_refresh_count = @ + 1], TRUE, "partial")

\* record_success without the test of the outcome
record_always(r, processed, now) ==
    Res([r.self EXCEPT !.last_update_time = now, !.last_image = processed],
        r.ret, r.kind)

\* update: last_update_time and last_image are set after the panel write
record_success(r, processed, now) ==
    IF r.ret
    THEN Res([r.self EXCEPT !.last_update_time = now, !.last_image = processed],
             TRUE, r.kind)
    ELSE r

\* IT8951Driver.update(image, force_full_refresh, region)
update(self, image, force_full_refresh, region, panel, now) ==
    IF image = None THEN Res(self, FALSE, "none")
    ELSE LET full == need_full_refresh(self, force_full_refresh) IN
         IF simulated(self)
         THEN Res(sim_counter(self, full),
                  _simulate_update(self, image, full, region),
                  IF full THEN "full" ELSE "partial")
         ELSE IF ~self.hardware_initialized THEN Res(self, FALSE, "none")
         ELSE LET processed == _process_image(image) IN
              record_success(
                  IF full THEN hw_full(self, processed, panel)
                          ELSE hw_partial(self, processed, region, panel),
                  processed, now)

\* IT8951Driver.update_partial_region(image, region)
update_partial_region(self, image, region, panel, now) ==
    update(self, image, FALSE, region, panel, now)

\* IT8951Driver.clear_display()
clear_display(self, panel) ==
    IF simulated(self) \/ ~self.hardware_initialized
    THEN Res([self EXCEPT !.partial_refresh_count = 0], TRUE, "full")
    ELSE hw_full(self, White, panel)

\* IT8951Driver.direct_partial_refresh(image)
direct_partial_refresh(self, image, panel) ==
    IF ~self.IT8951_AVAILABLE \/ self.mock_mode \/ ~self.hardware_initialized
    THEN Res(self, FALSE, "none")
    ELSE hw_partial(self, _process_image(image), None, panel)

\* IT8951Driver.direct_full_refresh(image)
direct_full_refresh(self, image, panel) ==
    IF ~self.IT8951_AVAILABLE \/ self.mock_mode \/ ~self.hardware_initialized
    THEN Res(self, FALSE, "none")
    ELSE hw_full(self, _process_image(image), panel)

(***************************************************************************)
(* The render session (DashboardRenderer).  playwright, context and page   *)
(* are the handles the renderer holds; openPw and openCtx count the        *)
(* playwright instances started and not stopped, and the browser contexts  *)
(* launched and not closed, whether or not a handle still refers to them.  *)
(***************************************************************************)
\* DashboardRenderer.__init__
NewRenderer ==
    [ loop |-> FALSE, playwright |-> None, context |-> None, page |-> None,
      is_persistent_browser_running |-> FALSE, openPw |-> 0, openCtx |-> 0 ]

\* how _start_persistent_browser_async ends: an exception raised by
\* async_playwright().start(), by launch_persistent_context or by a page
\* call; no verification screenshot on disk; success
StartOutcomes == {"raise_pw", "raise_launch", "raise_page", "no_file", "ok"}
\* how _cleanup_persistent_browser ends
CleanupOutcomes == {"ok", "close_raises", "stop_raises"}

\* DashboardRenderer._cleanup_persistent_browser
_cleanup_persistent_browser(r, cl) ==
    LET r0 == [r EXCEPT !.is_persistent_browser_running = FALSE] IN
    IF r0.context # None /\ cl = "close_raises" THEN r0
    ELSE LET r1 == IF r0.context # None
                   THEN [r0 EXCEPT !.context = None, !.openCtx = @ - 1]
                   ELSE r0
         IN  IF r1.playwright # None /\ cl = "stop_raises" THEN r1
             ELSE LET r2 == IF r1.playwright # None
                            THEN [r1 EXCEPT !.playwright = None, !.openPw = @ - 1]
                            ELSE r1
                  IN  [r2 EXCEPT !.page = None]

\* DashboardRenderer.cleanup_persistent_browser
cleanup_persistent_browser(r, cl) ==
    IF r.loop
    THEN [_cleanup_persistent_browser(r, cl) EXCEPT !.loop = FALSE]
    ELSE r

\* DashboardRenderer._start_persistent_browser_async
_start_persistent_browser_async(r, out, cl) ==
    IF out = "raise_pw"
    THEN [rd |-> _cleanup_persistent_browser(r, cl), ret |-> FALSE,
          events |-> <<"start_fail", "stop">>]
    ELSE LET r1 == [r EXCEPT !.playwright = "held", !.openPw = @ + 1] IN
         IF out = "raise_launch"
         THEN [rd |-> _cleanup_persistent_browser(r1, cl), ret |-> FALSE,
               events |-> <<"start_fail", "stop">>]
         ELSE LET r2 == [r1 EXCEPT !.context = "held", !.openCtx = @ + 1,
                                   !.page = "held"] IN
              IF out = "raise_page"
              THEN [rd |-> _cleanup_persistent_browser(r2, cl), ret |-> FALSE,
                    events |-> <<"start_fail", "stop">>]
              ELSE IF out = "no_file"
              THEN [rd |-> r2, ret |-> FALSE, events |-> <<"start_fail">>]
              ELSE [rd |-> [r2 EXCEPT !.is_persistent_browser_running = TRUE],
                    ret |-> TRUE, events |-> <<"start_ok">>]

\* DashboardRenderer.start_persistent_browser
start_persistent_browser(r, out, cl) ==
    _start_persistent_browser_async([r EXCEPT !.loop = TRUE], out, cl)

\* DashboardRenderer.render_persistent_screenshot: cap says whether the
\* screenshot comes out
render_persistent_screenshot(r, cap) ==
    IF ~r.is_persistent_browser_running \/ ~r.loop
    THEN [image |-> None, events |-> <<"capture_none">>]
    ELSE IF cap THEN [image |-> "img", events |-> <<"capture_ok">>]
                ELSE [image |-> None, events |-> <<"capture_fail">>]

\* DashboardRenderer.refresh_persistent_browser
refresh_persistent_browser(r, ok) ==
    IF ~r.is_persistent_browser_running \/ ~r.loop THEN FALSE ELSE ok

\* DashboardRenderer._render_dakboard / _render_integration_test
_render_with_session(r, out, cl, cap) ==
    IF ~settings.has_url THEN [rd |-> r, image |-> None, events |-> <<>>]
    ELSE IF ~r.is_persistent_browser_running
    THEN LET st == start_persistent_browser(r, out, cl) IN
         IF ~st.ret THEN [rd |-> st.rd, image |-> None, events |-> st.events]
         ELSE LET sh == render_persistent_screenshot(st.rd, cap) IN
              [rd |-> st.rd, image |-> sh.image, events |-> st.events \o sh.events]
    ELSE LET sh == render_persistent_screenshot(r, cap) IN
         [rd |-> r, image |-> sh.image, events |-> sh.events]

\* DashboardRenderer.render / MockDashboardRenderer.render
render(r, out, cl, cap) ==
    IF settings.dashboard_type \in {"dakboard", "integration_test", "mock"}
    THEN _render_with_session(r, out, cl, cap)
    ELSE \* "custom": a blank image, or None when drawing it raises
         [rd |-> r, image |-> IF cap THEN "img" ELSE None, events |-> <<>>]

\* _initialize_persistent_browser_with_retry(max_retries=3, retry_delay=5)
max_retries == 3

\* retry_again with <= for <: one attempt more
retry_again_le(att) == att <= max_retries

\* _initialize_persistent_browser_with_retry: "if attempt < max_retries",
\* and the end of "for attempt in range(1, max_retries + 1)"
retry_again(att) == att < max_retries
\* PiHomeDashboard.__init__: max_renders_before_refresh
max_renders_before_refresh == 1440

\* the page reload with the counter compared by > (one capture too many)
refresh_due_gt == browser_refresh_count > max_renders_before_refresh

\* update_display: "Check if we need to refresh the browser page"
refresh_due == browser_refresh_count >= max_renders_before_refresh

DashboardTypes == {"dakboard", "integration_test", "mock", "custom"}

\* the variables of the update cycle while only the driver is exercised
CycIdle ==
    /\ rd = NewRenderer
    /\ persistent_browser_enabled = FALSE
    /\ browser_refresh_count = 0
    /\ metrics = [attempt |-> 0, success |-> 0, failure |-> 0]
    /\ pc = "idle"
    /\ attempt = 0
    /\ phase = "init"
    /\ log = <<>>
    /\ result = TRUE
    /\ cycles = 0

(***************************************************************************)
(* EInkDriver (src/src/display/eink_driver.py), the omni-epd driver.       *)
(* shown is the frame the panel was last given.                            *)
(***************************************************************************)
\* EInkDriver.__init__: hardware_initialized needs the library
NewEInkDriver(lib, hwinit) ==
    [ OMNI_EPD_AVAILABLE    |-> lib,
      hardware_initialized  |-> lib /\ hwinit,
      partial_refresh_count |-> 0,
      last_update_time      |-> 0,
      shown                 |-> None ]

\* EInkDriver.update: "Check if we need a full refresh"
EInk_need_full_refresh(self, force_full_refresh) ==
    \/ force_full_refresh
    \/ self.partial_refresh_count >= limit

\* EInkDriver.update: the counter after a refresh
EInk_counter(self, full) ==
    [self EXCEPT !.partial_refresh_count = IF full THEN 0 ELSE @ + 1]

\* EInkDriver.update(image, force_full_refresh)
EInk_update(self, image, force_full_refresh, panel, now) ==
    IF image = None THEN Res(self, FALSE, "none")
    ELSE LET full == EInk_need_full_refresh(self, force_full_refresh)
             kind == IF full THEN "full" ELSE "partial"
         IN  IF ~self.OMNI_EPD_AVAILABLE
             THEN Res(EInk_counter(self, full), TRUE, kind)
             ELSE IF ~self.hardware_initialized THEN Res(self, FALSE, "none")
             ELSE IF panel # "ok" THEN Res(self, FALSE, "none")
             ELSE Res([EInk_counter(self, full) EXCEPT
                           !.shown = _process_image(image),
                           !.last_update_time = now],
                      TRUE, kind)

\* EInkDriver.clear_display()
EInk_clear_display(self, panel) ==
    IF ~self.OMNI_EPD_AVAILABLE \/ ~self.hardware_initialized
    THEN Res(self, TRUE, "full")
    ELSE IF panel # "ok" THEN Res(self, FALSE, "none")
    ELSE Res([self EXCEPT !.shown = White, !.partial_refresh_count = 0],
             TRUE, "full")

\* the EInkDriver while it is not exercised
EInkIdle ==
    /\ epd = NewEInkDriver(FALSE, FALSE)
    /\ epdRes = [op |-> "init", ret |-> TRUE, kind |-> "none", pre |-> 0]

\* the variables of the driver while only the update cycle is exercised
DrvIdle ==
    /\ limit = 1
    /\ drv = [d \in Drivers |-> NewDriver(d = "sim", TRUE, FALSE)]
    /\ lastRes = [d \in Drivers |->
                     [op |-> "init", ret |-> TRUE, kind |-> "none",
                      force |-> FALSE, pre |-> 0, had |-> FALSE]]
    /\ nCalls = 0
    /\ plain = [d \in Drivers |-> TRUE]
    /\ onlyUpd = TRUE
    /\ hwOk = FALSE
    /\ committed = [d \in Drivers |-> FALSE]
    /\ EInkIdle

(***************************************************************************)
(* The update scheduler.  Times are whole seconds since a midnight.        *)
(***************************************************************************)
\* intended_update_time = None
NoTime == -1

\* datetime.replace(second=0, microsecond=0)
startOfMinute(t) == (t \div 60) * 60
\* datetime.replace(minute=0) of a time on a minute boundary
startOfHour(t) == (t \div 3600) * 3600
\* datetime.minute
minuteOfHour(t) == (t \div 60) % 60

\* _calculate_next_update_time with a sub-minute interval added to the
\* reference time instead of aligned
calc_sub_minute_adds(current_time) ==
    LET interval_seconds == update_interval
        is_dakboard_mode == settings.dashboard_type = "dakboard"
        offset           == IF is_dakboard_mode THEN 5 ELSE 0
        next_minute      == startOfMinute(current_time) + 60
    IN  IF interval_seconds >= 60 /\ interval_seconds % 60 = 0
        THEN LET interval_minutes    == interval_seconds \div 60
                 minutes_past_hour   == minuteOfHour(next_minute)
                 next_aligned_minute ==
                     ((minutes_past_hour \div interval_minutes) + 1) * interval_minutes
             IN  IF interval_minutes > 1
                 THEN IF next_aligned_minute >= 60
                      THEN startOfHour(next_minute) + 3600
                               + (next_aligned_minute - 60) * 60 + offset
                      ELSE startOfHour(next_minute)
                               + next_aligned_minute * 60 + offset
                 ELSE next_minute + offset
        ELSE current_time + interval_seconds + offset

\* _calculate_next_update_time with every interval that is not a whole
\* number of minutes aligned to the next minute
calc_always_aligns(current_time) ==
    LET interval_seconds == update_interval
        is_dakboard_mode == settings.dashboard_type = "dakboard"
        offset           == IF is_dakboard_mode THEN 5 ELSE 0
        next_minute      == startOfMinute(current_time) + 60
    IN  IF interval_seconds >= 60 /\ interval_seconds % 60 = 0
        THEN LET interval_minutes    == interval_seconds \div 60
                 minutes_past_hour   == minuteOfHour(next_minute)
                 next_aligned_minute ==
                     ((minutes_past_hour \div interval_minutes) + 1) * interval_minutes
             IN  IF interval_minutes > 1
                 THEN IF next_aligned_minute >= 60
                      THEN startOfHour(next_minute) + 3600
                               + (next_aligned_minute - 60) * 60 + offset
                      ELSE startOfHour(next_minute)
                               + next_aligned_minute * 60 + offset
                 ELSE next_minute + offset
        ELSE next_minute + offset

\* _calculate_next_update_time counting from the minute of the reference
\* time instead of the minute after it
calc_from_this_minute(current_time) ==
    LET interval_seconds == update_interval
        is_dakboard_mode == settings.dashboard_type = "dakboard"
        offset           == IF is_dakboard_mode THEN 5 ELSE 0
        next_minute      == startOfMinute(current_time)
    IN  IF interval_seconds >= 60 /\ interval_seconds % 60 = 0
        THEN LET interval_minutes    == interval_seconds \div 60
                 minutes_past_hour   == minuteOfHour(next_minute)
                 next_aligned_minute ==
                     ((minutes_past_hour \div interval_minutes) + 1) * interval_minutes
             IN  IF interval_minutes > 1
                 THEN IF next_aligned_minute >= 60
                      THEN startOfHour(next_minute) + 3600
                               + (next_aligned_minute - 60) * 60 + offset
                      ELSE startOfHour(next_minute)
                               + next_aligned_minute * 60 + offset
                 ELSE next_minute + offset
        ELSE IF interval_seconds < 60
        THEN next_minute + offset
        ELSE current_time + interval_seconds

\* PiHomeDashboard._calculate_next_update_time
_calculate_next_update_time(current_time) ==
    LET interval_seconds == update_interval
        is_dakboard_mode == settings.dashboard_type = "dakboard"
        offset           == IF is_dakboard_mode THEN 5 ELSE 0
        next_minute      == startOfMinute(current_time) + 60
    IN  IF interval_seconds >= 60 /\ interval_seconds % 60 = 0
        THEN LET interval_minutes    == interval_seconds \div 60
                 minutes_past_hour   == minuteOfHour(next_minute)
                 next_aligned_minute ==
                     ((minutes_past_hour \div interval_minutes) + 1) * interval_minutes
             IN  IF interval_minutes > 1
                 THEN IF next_aligned_minute >= 60
                      THEN startOfHour(next_minute) + 3600
                               + (next_aligned_minute - 60) * 60 + offset
                      ELSE startOfHour(next_minute)
                               + next_aligned_minute * 60 + offset
                 ELSE next_minute + offset
        ELSE IF interval_seconds < 60
        THEN next_minute + offset
        ELSE current_time + interval_seconds

\* run_continuous with the schedule re-based on the clock
schedule_base_now(intended, current_time) == current_time

\* run_continuous with the missed slots skipped
schedule_base_skip(intended, current_time) ==
    IF intended # NoTime /\ intended >= current_time THEN intended
                                                     ELSE current_time

\* run_continuous: "intended_update_time or current_time"
schedule_base(intended, current_time) ==
    IF intended # NoTime THEN intended ELSE current_time

\* the variables of the scheduler while it is not exercised
SchIdle ==
    /\ update_interval = 60
    /\ clock = 0
    /\ intended_update_time = NoTime
    /\ is_first_update = TRUE
    /\ spc = "run"
    /\ passes = 0
    /\ wake = NoTime
    /\ last = [slept |-> FALSE, success |-> TRUE, took |-> 0, from |-> NoTime]
    /\ c_t = 0
    /\ c_out = NoTime

(***************************************************************************)
(* The ImageProcessor.  A bitmap is a record of its mode, its size         *)
(* <<width, height>> and its rows of pixels, top row first: the levels px  *)
(* of an 'L' bitmap, the bands r, g and b of an 'RGB' bitmap.              *)
(***************************************************************************)
\* None where a bitmap is expected
NoImage == [mode |-> None]

\* settings.display_width and settings.display_height of the processor
ImgW == 3
ImgH == 3

\* the grey levels the bitmaps are drawn from
GrayLevels == {100, 200}

LImages(w, h) ==
    [mode : {"L"}, size : {<<w, h>>},
     px : [1..h -> [1..w -> GrayLevels]]]

\* the float32 working array holds levels in units of 1/DScale; the sums
\* of sixteenths it accumulates are whole numbers of that unit
DScale == 65536

\* Image.convert('L'): ITU-R 601-2 luma, in 16-bit fixed point
convert_L(image) ==
    [mode |-> "L", size |-> image.size,
     px |-> [y \in 1..image.size[2] |-> [x \in 1..image.size[1] |->
                (image.r[y][x] * 19595 + image.g[y][x] * 38470
                     + image.b[y][x] * 7471 + 32768) \div 65536]]]

\* Image.rotate(angle, expand=True) of an 'L' bitmap for the angles the
\* settings allow: a counter-clockwise turn, the canvas growing to hold the
\* turned bitmap
rotate(image, angle) ==
    LET w == image.size[1]
        h == image.size[2]
    IN  IF angle = 90
        THEN [mode |-> image.mode, size |-> <<h, w>>,
              px |-> [y \in 1..w |-> [x \in 1..h |-> image.px[x][w + 1 - y]]]]
        ELSE IF angle = 180
        THEN [mode |-> image.mode, size |-> <<w, h>>,
              px |-> [y \in 1..h |-> [x \in 1..w |->
                         image.px[h + 1 - y][w + 1 - x]]]]
        ELSE IF angle = 270
        THEN [mode |-> image.mode, size |-> <<h, w>>,
              px |-> [y \in 1..w |-> [x \in 1..h |-> image.px[h + 1 - x][y]]]]
        ELSE image

\* a working array that starts from what the previous run returned as well
img_array_carried(self, image) ==
    [y \in 1..image.size[2] |-> [x \in 1..image.size[1] |->
        image.px[y][x] * DScale
            + (IF self = NoImage THEN 0
               ELSE self.px[1 + ((y - 1) % self.size[2])]
                           [1 + ((x - 1) % self.size[1])] * (DScale \div 16))]]

\* np.array(image, dtype=np.float32): a fresh array of the bitmap's levels
\* (self is what the processor's previous run returned: nothing of it is
\* kept)
img_array(self, image) ==
    [y \in 1..image.size[2] |-> [x \in 1..image.size[1] |->
        image.px[y][x] * DScale]]

\* the inner loop as for x in range(0, width - 2)
visit_x_from_0(k, width) == k % (width - 2)

\* the x of the k-th pixel visited: for x in range(1, width - 1)
visit_x(k, width) == 1 + (k % (width - 2))
\* and its y: for y in range(height - 1)
visit_y(k, width) == k \div (width - 2)

\* how many pixels the two loops visit
visited(width, height) ==
    IF width > 2 /\ height > 1 THEN (height - 1) * (width - 2) ELSE 0

\* the body of the loops at pixel (x, y), counted from 0 as the code does
diffuse(data, x, y) ==
    LET old_pixel == data[y + 1][x + 1]
        new_pixel == IF old_pixel > 127 * DScale THEN 255 * DScale ELSE 0
        error     == old_pixel - new_pixel
    IN  [r \in DOMAIN data |-> [c \in DOMAIN data[r] |->
            IF r = y + 1 /\ c = x + 1 THEN new_pixel
            ELSE IF r = y + 1 /\ c = x + 2
            THEN data[r][c] + (error * 7) \div 16
            ELSE IF r = y + 2 /\ c = x
            THEN data[r][c] + (error * 3) \div 16
            ELSE IF r = y + 2 /\ c = x + 1
            THEN data[r][c] + (error * 5) \div 16
            ELSE IF r = y + 2 /\ c = x + 2
            THEN data[r][c] + (error * 1) \div 16
            ELSE data[r][c]]]

RECURSIVE dither_from(_, _, _, _)
\* the two loops from the k-th pixel they visit on
dither_from(data, k, width, height) ==
    IF k >= visited(width, height) THEN data
    ELSE dither_from(diffuse(data, visit_x(k, width), visit_y(k, width)),
                     k + 1, width, height)

\* np.clip(img_array, 0, 255).astype(np.uint8)
clip_uint8(v) ==
    IF v < 0 THEN 0 ELSE IF v > 255 * DScale THEN 255 ELSE v \div DScale

\* ImageProcessor._apply_dithering; raises: an operation of it raises.
\* The array of a bitmap that is not 'L' has three axes, and unpacking its
\* shape into height and width raises.
_apply_dithering(self, image, raises) ==
    IF raises \/ image.mode # "L" THEN image
    ELSE LET width  == image.size[1]
             height == image.size[2]
             out    == dither_from(img_array(self, image), 0, width, height)
         IN  [mode |-> "L", size |-> image.size,
              px |-> [y \in 1..height |-> [x \in 1..width |->
                         clip_uint8(out[y][x])]]]

\* bitmaps of one level or colour
uniform(mode, w, h, v) ==
    LET plane == [y \in 1..h |-> [x \in 1..w |-> v]]
    IN  IF mode = "L"
        THEN [mode |-> "L", size |-> <<w, h>>, px |-> plane]
        ELSE [mode |-> "RGB", size |-> <<w, h>>,
              r |-> plane, g |-> plane, b |-> plane]

\* Image.resize(size, Image.Resampling.LANCZOS) of a bitmap of one colour:
\* the weights of the filter sum to one, so the result has that colour
resize(image, size) ==
    LET plane(band) == [y \in 1..size[2] |-> [x \in 1..size[1] |-> band[1][1]]]
    IN  IF image.mode = "L"
        THEN [mode |-> "L", size |-> size, px |-> plane(image.px)]
        ELSE [mode |-> "RGB", size |-> size, r |-> plane(image.r),
              g |-> plane(image.g), b |-> plane(image.b)]

\* the steps of process_for_eink that can raise
Faults == {"none", "resize", "convert", "rotate", "dither"}

\* ImageProcessor.process_for_eink; fault is the step that raises when it
\* is reached
process_for_eink(self, image, rotation, fault) ==
    IF image = NoImage THEN NoImage
    ELSE LET must_resize == image.size # <<ImgW, ImgH>>
             sized       == IF must_resize THEN resize(image, <<ImgW, ImgH>>)
                                           ELSE image
             must_convert == sized.mode # "L"
             grey        == IF must_convert THEN convert_L(sized) ELSE sized
             must_rotate == rotation # 0
             turned      == IF must_rotate THEN rotate(grey, rotation) ELSE grey
         IN  IF \/ must_resize /\ fault = "resize"
                \/ must_convert /\ fault = "convert"
                \/ must_rotate /\ fault = "rotate"
             THEN NoImage
             ELSE _apply_dithering(self, turned, fault = "dither")

\* process_for_eink has not returned yet
Pending == [mode |-> "pending"]

\* the image processor while it is not exercised
ImgIdle ==
    /\ epd_mode = "bw"
    /\ display_rotation = 0
    /\ ip_image = NoImage
    /\ ip_fault = "none"
    /\ ip_out = Pending
    /\ ip_prev = NoImage
    /\ ip_run = <<>>

(***************************************************************************)
(* main(), the telemetry labels, the panel and browser dimensions and the  *)
(* debug screenshots.                                                      *)
(***************************************************************************)
\* main() always exiting with status 0
exit_status_zero(success) == 0

\* main(): sys.exit(0 if success else 1)
exit_status(success) == IF success THEN 0 ELSE 1

\* update_display: refresh_type = 'full' if force_full_refresh else 'partial'
refresh_type(force_full_refresh) ==
    IF force_full_refresh THEN "full" ELSE "partial"

\* main() has not called sys.exit
NoExit == -1

\* main() and the telemetry while they are not exercised
MainIdle ==
    /\ mpc = "none"
    /\ exit_code = NoExit
    /\ telemetry = [full_cycle |-> None, display_update |-> None,
                   render |-> None]

\* Settings.DEFAULTS: display_width, display_height
DefaultSize == <<400, 200>>

\* the dimensions a configuration or a panel can have
Sizes == {DefaultSize, <<800, 600>>, <<1872, 1404>>}

\* no dimensions: no panel found, no key in the file, no context launched
NoSize == <<0, 0>>

\* IT8951Driver._init_display: reported is <<display.width, display.height>>,
\* or NoSize in mock mode and when AutoEPDDisplay raises; gives the new
\* settings.display_width and settings.display_height
_init_display(size, reported) ==
    IF reported # NoSize /\ reported # size THEN reported ELSE size

\* Settings.load_from_file, then _apply_env_overrides: env is what
\* DISPLAY_WIDTH and DISPLAY_HEIGHT hold after the file is read, NoSize
\* when they are not set; gives the new settings.display_*
load_from_file(size, env) ==
    IF env # NoSize THEN env ELSE size

\* _start_persistent_browser_async: launch_persistent_context was reached
\* and returned
launched(out) == out \notin {"raise_pw", "raise_launch"}

\* the dimensions while they are not exercised
ViewIdle ==
    /\ display_size = DefaultSize
    /\ browser_size = DefaultSize
    /\ viewport = NoSize
    /\ vpc = "ready"
    /\ starts = 0

\* _save_persistent_screenshot: max_screenshots=10
max_screenshots == 10

\* _cleanup_old_screenshots with the files sorted oldest first
files_to_remove_oldest_first(files, max) ==
    {f \in files : Cardinality({g \in files : g.mtime < f.mtime}) >= max}

\* _cleanup_old_screenshots: the files after the first max of the list
\* sorted by st_mtime, newest first
files_to_remove(files, max) ==
    {f \in files : Cardinality({g \in files : g.mtime > f.mtime}) >= max}

\* no file: nothing was saved yet
NoFile == [name |-> NoTime, mtime |-> 0, frame |-> 0]

\* the screenshots directory while it is not exercised
ShotIdle ==
    /\ shots = {}
    /\ latest = 0
    /\ saved = NoFile
    /\ nSaves = 0
    /\ shotclock = 0
    /\ unlinked = TRUE

\* the directory of the simulation outputs while no update is simulated
SimIdle ==
    /\ temp_dir = {}
    /\ simclock = 0

\* no validation made
NotValidated ==
    [done |-> FALSE, success |-> FALSE, warning |-> FALSE, error |-> FALSE]

\* the TimeValidator while it is not exercised
TvIdle ==
    /\ tv_system = [hour |-> 0, minute |-> 0, second |-> 0]
    /\ tv_text = [hour |-> 12, minute |-> 0, am_pm |-> "AM"]
    /\ tv_out = NotValidated

\* everything outside the driver, the cycle and the scheduler, idle
ExtIdle ==
    /\ MainIdle
    /\ ViewIdle
    /\ ImgIdle
    /\ ShotIdle
    /\ SimIdle
    /\ TvIdle

(***************************************************************************)
(* The driver under any sequence of calls.  Both drivers receive the same  *)
(* call; the panel outcome only matters to the one on hardware.            *)
(***************************************************************************)
InitDrv ==
    /\ ExtIdle
    /\ limit \in 1..MaxLimit
    /\ \E mock \in BOOLEAN, hwinit \in BOOLEAN :
           drv = [d \in Drivers |->
                     IF d = "sim" THEN NewDriver(mock, mock, FALSE)
                                  ELSE NewDriver(FALSE, TRUE, hwinit)]
    /\ lastRes = [d \in Drivers |->
                     [op |-> "init", ret |-> TRUE, kind |-> "none",
                      force |-> FALSE, pre |-> 0, had |-> FALSE]]
    /\ nCalls = 0
    /\ plain = [d \in Drivers |-> TRUE]
    /\ onlyUpd = TRUE
    /\ hwOk = drv["hw"].hardware_initialized
    /\ committed = [d \in Drivers |-> FALSE]
    /\ EInkIdle
    /\ settings = [dashboard_type |-> "dakboard", has_url |-> TRUE]
    /\ CycIdle
    /\ SchIdle

\* one call, made on both drivers: r[d] is what the call does on driver d
ApplyDrv(op, force, r, panel) ==
    /\ nCalls' = nCalls + 1
    /\ drv' = [d \in Drivers |-> r[d].self]
    /\ lastRes' = [d \in Drivers |->
                      [op |-> op, ret |-> r[d].ret, kind |-> r[d].kind,
                       force |-> force,
                       pre |-> drv[d].partial_refresh_count,
                       had |-> committed[d]]]
    /\ plain' = [d \in Drivers |->
                    plain[d] /\ op = "update" /\ ~force /\ r[d].ret]
    /\ onlyUpd' = (onlyUpd /\ op = "update")
    /\ hwOk' = (hwOk /\ panel = "ok")
    /\ committed' = [d \in Drivers |->
                        committed[d] \/ (op = "update" /\ r[d].ret)]
    /\ UNCHANGED limit

Apply(op, force, r, panel) ==
    /\ ApplyDrv(op, force, r, panel)
    /\ UNCHANGED <<cycVars, schVars>>

Call(op, force, r, panel) ==
    /\ nCalls < MaxCalls
    /\ Apply(op, force, r, panel)
    /\ UNCHANGED <<epd, epdRes, extVars>>

Update ==
    \E image \in Images \cup {None}, force \in BOOLEAN,
       region \in Regions \cup {None}, panel \in PanelOutcomes :
        Call("update", force,
             [d \in Drivers |->
                 update(drv[d], image, force, region, panel, nCalls + 1)],
             panel)

UpdatePartialRegion ==
    \E image \in Images, region \in Regions, panel \in PanelOutcomes :
        Call("update", FALSE,
             [d \in Drivers |->
                 update_partial_region(drv[d], image, region, panel, nCalls + 1)],
             panel)

ClearDisplay ==
    \E panel \in PanelOutcomes :
        Call("clear_display", FALSE,
             [d \in Drivers |-> clear_display(drv[d], panel)], panel)

DirectPartialRefresh ==
    \E image \in Images, panel \in PanelOutcomes :
        /\ drv["hw"].partial_refresh_count < MaxCount
        /\ Call("direct_partial_refresh", FALSE,
                [d \in Drivers |-> direct_partial_refresh(drv[d], image, panel)],
                panel)

DirectFullRefresh ==
    \E image \in Images, panel \in PanelOutcomes :
        Call("direct_full_refresh", FALSE,
             [d \in Drivers |-> direct_full_refresh(drv[d], image, panel)],
             panel)

NextDrv ==
    \/ Update
    \/ UpdatePartialRegion
    \/ ClearDisplay
    \/ DirectPartialRefresh
    \/ DirectFullRefresh

SpecDrv == InitDrv /\ [][NextDrv]_vars

(***************************************************************************)
(* A run of unforced updates whose panel writes succeed, on a fresh driver *)
(* with eink_partial_refresh_limit = 10.                                   *)
(***************************************************************************)
InitRun ==
    /\ ExtIdle
    /\ limit = RunLimit
    /\ \E mock \in BOOLEAN, hwinit \in BOOLEAN :
           drv = [d \in Drivers |->
                     IF d = "sim" THEN NewDriver(mock, mock, FALSE)
                                  ELSE NewDriver(FALSE, TRUE, hwinit)]
    /\ lastRes = [d \in Drivers |->
                     [op |-> "init", ret |-> TRUE, kind |-> "none",
                      force |-> FALSE, pre |-> 0, had |-> FALSE]]
    /\ nCalls = 0
    /\ plain = [d \in Drivers |-> TRUE]
    /\ onlyUpd = TRUE
    /\ hwOk = drv["hw"].hardware_initialized
    /\ committed = [d \in Drivers |-> FALSE]
    /\ EInkIdle
    /\ settings = [dashboard_type |-> "dakboard", has_url |-> TRUE]
    /\ CycIdle
    /\ SchIdle

\* display.update(image) or display.update_partial_region(image, region)
Commit ==
    \E image \in Images, region \in Regions \cup {None} :
        /\ nCalls < MaxCommits
        /\ Apply("update", FALSE,
                 [d \in Drivers |->
                     update(drv[d], image, FALSE, region, "ok", nCalls + 1)],
                 "ok")
        /\ UNCHANGED <<epd, epdRes, extVars>>

NextRun == Commit

SpecRun == InitRun /\ [][NextRun]_vars

(***************************************************************************)
(* The two display drivers under the same update and clear_display calls   *)
(* (main.py drives either through the same interface).                     *)
(***************************************************************************)
InitDisplays ==
    /\ ExtIdle
    /\ limit \in 1..MaxLimit
    /\ \E mock \in BOOLEAN, hwinit \in BOOLEAN :
           drv = [d \in Drivers |->
                     IF d = "sim" THEN NewDriver(mock, mock, FALSE)
                                  ELSE NewDriver(FALSE, TRUE, hwinit)]
    /\ lastRes = [d \in Drivers |->
                     [op |-> "init", ret |-> TRUE, kind |-> "none",
                      force |-> FALSE, pre |-> 0, had |-> FALSE]]
    /\ nCalls = 0
    /\ plain = [d \in Drivers |-> TRUE]
    /\ onlyUpd = TRUE
    /\ hwOk = drv["hw"].hardware_initialized
    /\ committed = [d \in Drivers |-> FALSE]
    /\ \E lib \in BOOLEAN, hwinit \in BOOLEAN : epd = NewEInkDriver(lib, hwinit)
    /\ epdRes = [op |-> "init", ret |-> TRUE, kind |-> "none", pre |-> 0]
    /\ settings = [dashboard_type |-> "dakboard", has_url |-> TRUE]
    /\ CycIdle
    /\ SchIdle

\* what one call left of the EInkDriver
EInkApply(op, r) ==
    /\ epd' = r.self
    /\ epdRes' = [op |-> op, ret |-> r.ret, kind |-> r.kind,
                  pre |-> epd.partial_refresh_count]

\* display.update(image, force_full_refresh)
DisplaysUpdate ==
    \E image \in Images \cup {None}, force \in BOOLEAN, panel \in PanelOutcomes :
        /\ nCalls < MaxCalls
        /\ Apply("update", force,
                 [d \in Drivers |->
                     update(drv[d], image, force, None, panel, nCalls + 1)],
                 panel)
        /\ EInkApply("update",
                     EInk_update(epd, image, force, panel, nCalls + 1))
        /\ UNCHANGED extVars

\* display.clear_display()
DisplaysClear ==
    \E panel \in PanelOutcomes :
        /\ nCalls < MaxCalls
        /\ Apply("clear_display", FALSE,
                 [d \in Drivers |-> clear_display(drv[d], panel)], panel)
        /\ EInkApply("clear_display", EInk_clear_display(epd, panel))
        /\ UNCHANGED extVars

NextDisplays ==
    \/ DisplaysUpdate
    \/ DisplaysClear

SpecDisplays == InitDisplays /\ [][NextDisplays]_vars

(***************************************************************************)
(* The update cycle (PiHomeDashboard.update_display), one step per call    *)
(* it makes on the render session or the display, then cleanup.            *)
(***************************************************************************)
usesSession ==
    settings.dashboard_type = "dakboard" /\ persistent_browser_enabled

InitCycle ==
    /\ ExtIdle
    /\ DrvIdle
    /\ SchIdle
    /\ settings \in [dashboard_type : DashboardTypes, has_url : BOOLEAN]
    /\ metrics = [attempt |-> 0, success |-> 0, failure |-> 0]
    /\ pc = "idle"
    /\ attempt = 0
    /\ phase = "init"
    /\ log = <<>>
    /\ result = TRUE
    /\ cycles = 0
    \* a fresh process, or one whose session has served captures for a day
    /\ \/ /\ rd = NewRenderer
          /\ persistent_browser_enabled = FALSE
          /\ browser_refresh_count = 0
       \/ /\ settings.dashboard_type = "dakboard" /\ settings.has_url
          /\ rd = [ loop |-> TRUE, playwright |-> "held", context |-> "held",
                    page |-> "held", is_persistent_browser_running |-> TRUE,
                    openPw |-> 1, openCtx |-> 1 ]
          /\ persistent_browser_enabled = TRUE
          /\ browser_refresh_count \in
                 {max_renders_before_refresh - 1, max_renders_before_refresh}

\* update_display returns ret
Return(ret) ==
    /\ pc' = "idle"
    /\ result' = ret
    /\ cycles' = cycles + 1

\* update_display up to its first call on the session
BeginCycle ==
    /\ pc = "idle"
    /\ cycles < MaxCycles
    /\ metrics' = [metrics EXCEPT !.attempt = @ + 1]
    /\ log' = <<>>
    /\ IF /\ settings.dashboard_type = "dakboard"
          /\ ~persistent_browser_enabled
          /\ settings.has_url
       THEN pc' = "start" /\ attempt' = 1 /\ phase' = "init"
       ELSE pc' = "render" /\ UNCHANGED <<attempt, phase>>
    /\ UNCHANGED <<settings, rd, persistent_browser_enabled,
                   browser_refresh_count, result, cycles>>
    /\ UNCHANGED <<drvVars, schVars, extVars>>

\* one attempt of _initialize_persistent_browser_with_retry, and what
\* update_display does when the retry loop returns
StartAttempt ==
    /\ pc = "start"
    /\ \E out \in StartOutcomes, cl \in CleanupOutcomes :
          LET st == start_persistent_browser(rd, out, cl) IN
          /\ rd' = st.rd
          /\ log' = log \o st.events
          /\ IF st.ret
             THEN /\ persistent_browser_enabled' = TRUE
                  /\ browser_refresh_count' = 0
                  /\ pc' = IF phase = "init" THEN "render" ELSE "recapture"
                  /\ UNCHANGED <<metrics, result, cycles>>
             ELSE IF retry_again(attempt)
             THEN /\ pc' = "wait"
                  /\ UNCHANGED <<persistent_browser_enabled,
                                 browser_refresh_count, metrics, result, cycles>>
             ELSE IF phase = "init"
             THEN /\ Return(FALSE)
                  /\ UNCHANGED <<persistent_browser_enabled,
                                 browser_refresh_count, metrics>>
             ELSE /\ metrics' = [metrics EXCEPT !.failure = @ + 1]
                  /\ Return(FALSE)
                  /\ UNCHANGED <<persistent_browser_enabled,
                                 browser_refresh_count>>
    /\ UNCHANGED <<settings, attempt, phase>>
    /\ UNCHANGED <<drvVars, schVars, extVars>>

\* _initialize_persistent_browser_with_retry: time.sleep(retry_delay)
RetryWait ==
    /\ pc = "wait"
    /\ log' = Append(log, "sleep")
    /\ attempt' = attempt + 1
    /\ pc' = "start"
    /\ UNCHANGED <<settings, rd, persistent_browser_enabled,
                   browser_refresh_count, metrics, phase, result, cycles>>
    /\ UNCHANGED <<drvVars, schVars, extVars>>

\* update_display: the page reload when due, then the capture
PersistentRender ==
    /\ pc = "render"
    /\ usesSession
    /\ \E rok \in BOOLEAN, cap \in BOOLEAN :
          LET due == refresh_due
              reloaded == due /\ refresh_persistent_browser(rd, rok)
              cnt == IF reloaded THEN 0 ELSE browser_refresh_count
              sh == render_persistent_screenshot(rd, cap)
          IN  /\ log' = log \o (IF due THEN <<"refresh">> ELSE <<>>) \o sh.events
              /\ browser_refresh_count' = cnt + 1
              /\ IF sh.image = None
                 THEN /\ persistent_browser_enabled' = FALSE
                      /\ pc' = "start" /\ attempt' = 1 /\ phase' = "recover"
                 ELSE /\ pc' = "display"
                      /\ UNCHANGED <<persistent_browser_enabled, attempt, phase>>
    /\ UNCHANGED <<settings, rd, metrics, result, cycles>>
    /\ UNCHANGED <<drvVars, schVars, extVars>>

\* update_display: the capture after a successful re-initialisation
Recapture ==
    /\ pc = "recapture"
    /\ \E cap \in BOOLEAN :
          LET sh == render_persistent_screenshot(rd, cap) IN
          /\ log' = log \o sh.events
          /\ browser_refresh_count' = browser_refresh_count + 1
          /\ IF sh.image = None
             THEN /\ metrics' = [metrics EXCEPT !.failure = @ + 1]
                  /\ Return(FALSE)
             ELSE /\ pc' = "display"
                  /\ UNCHANGED <<metrics, result, cycles>>
    /\ UNCHANGED <<settings, rd, persistent_browser_enabled, attempt, phase>>
    /\ UNCHANGED <<drvVars, schVars, extVars>>

\* update_display: self.renderer.render() when no session is used
StandardRender ==
    /\ pc = "render"
    /\ ~usesSession
    /\ \E out \in StartOutcomes, cl \in CleanupOutcomes, cap \in BOOLEAN :
          LET rr == render(rd, out, cl, cap) IN
          /\ rd' = rr.rd
          /\ log' = log \o rr.events
          /\ IF rr.image = None
             THEN /\ metrics' = [metrics EXCEPT !.failure = @ + 1]
                  /\ Return(FALSE)
             ELSE /\ pc' = "display"
                  /\ UNCHANGED <<metrics, result, cycles>>
    /\ UNCHANGED <<settings, persistent_browser_enabled, browser_refresh_count,
                   attempt, phase>>
    /\ UNCHANGED <<drvVars, schVars, extVars>>

\* update_display: self.display.update(dashboard_image, force_full_refresh)
DisplayUpdate ==
    /\ pc = "display"
    /\ \E success \in BOOLEAN :
          /\ log' = Append(log, "display")
          /\ metrics' = IF success THEN [metrics EXCEPT !.success = @ + 1]
                                   ELSE [metrics EXCEPT !.failure = @ + 1]
          /\ Return(success)
    /\ UNCHANGED <<settings, rd, persistent_browser_enabled,
                   browser_refresh_count, attempt, phase>>
    /\ UNCHANGED <<drvVars, schVars, extVars>>

\* PiHomeDashboard.cleanup
cleanup ==
    /\ pc = "idle"
    /\ \E cl \in CleanupOutcomes :
          IF persistent_browser_enabled
          THEN /\ rd' = cleanup_persistent_browser(rd, cl)
               /\ persistent_browser_enabled' = FALSE
          ELSE UNCHANGED <<rd, persistent_browser_enabled>>
    /\ pc' = "exited"
    /\ UNCHANGED <<settings, browser_refresh_count, metrics, attempt, phase,
                   log, result, cycles>>
    /\ UNCHANGED <<drvVars, schVars>>

Cleanup ==
    /\ cleanup
    /\ UNCHANGED extVars

NextCycle ==
    \/ BeginCycle
    \/ StartAttempt
    \/ RetryWait
    \/ PersistentRender
    \/ Recapture
    \/ StandardRender
    \/ DisplayUpdate
    \/ Cleanup

SpecCycle == InitCycle /\ [][NextCycle]_vars

(***************************************************************************)
(* _calculate_next_update_time on its own: a reference time, an interval   *)
(* and a dashboard type are drawn, then the function is applied.           *)
(***************************************************************************)
Intervals == {15, 30, 60, 90, 120, 150, 300, 420}
SchedTypes == {"dakboard", "custom"}

InitCalc ==
    /\ ExtIdle
    /\ DrvIdle
    /\ CycIdle
    /\ settings \in [dashboard_type : SchedTypes, has_url : {TRUE}]
    /\ update_interval \in Intervals
    /\ c_t \in 0..MaxT
    /\ c_out = NoTime
    /\ clock = 0
    /\ intended_update_time = NoTime
    /\ is_first_update = TRUE
    /\ spc = "run"
    /\ passes = 0
    /\ wake = NoTime
    /\ last = [slept |-> FALSE, success |-> TRUE, took |-> 0, from |-> NoTime]

CalcApply ==
    /\ c_out = NoTime
    /\ c_out' = _calculate_next_update_time(c_t)
    /\ UNCHANGED <<update_interval, clock, intended_update_time,
                   is_first_update, spc, passes, wake, last, c_t>>
    /\ UNCHANGED <<drvVars, cycVars, extVars>>

NextCalc == CalcApply

SpecCalc == InitCalc /\ [][NextCalc]_vars

(***************************************************************************)
(* The continuous loop (PiHomeDashboard.run_continuous).  One iteration    *)
(* runs update_display, which takes some time and succeeds or fails, then  *)
(* computes the next update time; the sleep is a step of its own.          *)
(***************************************************************************)
\* how long one update_display may take, in seconds
Durations == {2, 45, 70, 200}
StartTimes == {0, 17, 59}
LoopIntervals == {60, 90, 120}

InitSched ==
    /\ ExtIdle
    /\ DrvIdle
    /\ CycIdle
    /\ settings \in [dashboard_type : SchedTypes, has_url : {TRUE}]
    /\ update_interval \in LoopIntervals
    /\ clock \in StartTimes
    /\ intended_update_time = NoTime
    /\ is_first_update = TRUE
    /\ spc = "run"
    /\ passes = 0
    /\ wake = NoTime
    /\ last = [slept |-> FALSE, success |-> TRUE, took |-> 0, from |-> NoTime]
    /\ c_t = 0
    /\ c_out = NoTime

\* run_continuous: one pass of the while loop up to the sleep
RunCycle ==
    /\ spc = "run"
    /\ \E took \in Durations, success \in BOOLEAN :
          LET current_time == clock + took
              next_update_time ==
                  _calculate_next_update_time(
                      schedule_base(intended_update_time, current_time))
              time_until_next_update == next_update_time - current_time
          IN  /\ current_time <= MaxClock
              /\ clock' = current_time
              /\ is_first_update' = FALSE
              /\ passes' = passes + 1
              /\ IF time_until_next_update > 0
                 THEN spc' = "sleep" /\ wake' = next_update_time
                 ELSE spc' = "run" /\ wake' = NoTime
              /\ intended_update_time' = next_update_time
              /\ last' = [slept |-> time_until_next_update > 0,
                          success |-> success, took |-> took,
                          from |-> intended_update_time]
    /\ UNCHANGED <<update_interval, c_t, c_out>>
    /\ UNCHANGED <<drvVars, cycVars, extVars>>

\* run_continuous: time.sleep(time_until_next_update) returns
Sleep ==
    /\ spc = "sleep"
    /\ clock' = wake
    /\ spc' = "run"
    /\ wake' = NoTime
    /\ UNCHANGED <<update_interval, intended_update_time, is_first_update,
                   passes, last, c_t, c_out>>
    /\ UNCHANGED <<drvVars, cycVars, extVars>>

\* run_continuous: KeyboardInterrupt
Interrupt ==
    /\ spc \in {"run", "sleep"}
    /\ spc' = "stopped"
    /\ UNCHANGED <<update_interval, clock, intended_update_time,
                   is_first_update, passes, wake, last, c_t, c_out>>
    /\ UNCHANGED <<drvVars, cycVars, extVars>>

NextSched ==
    \/ RunCycle
    \/ Sleep
    \/ Interrupt

SpecSched == InitSched /\ [][NextSched]_vars

(***************************************************************************)
(* The continuous loop with update_display followed step by step: the      *)
(* loop calls update_display, waits for it to return, schedules the next   *)
(* pass and sleeps.  KeyboardInterrupt is raised wherever the main thread  *)
(* stands, inside update_display too: neither update_display nor the       *)
(* display driver nor the renderer catches it (they catch Exception), so   *)
(* the call in progress is left where it was.                              *)
(***************************************************************************)
\* a loop that calls update_display again without waiting for the schedule
at_top_any == pc = "idle"

\* run_continuous is at the top of its while loop
at_top == pc = "idle" /\ cycles = passes

\* update_display has returned to run_continuous
returned == pc = "idle" /\ cycles > passes

\* a loop that goes on only after a successful update
while_success(success) == success

\* run_continuous: "while True"
while_True(success) == TRUE

\* how long update_display may take in a pass of this loop
LoopDurations == {45}

InitLoop ==
    /\ InitSched
    /\ update_interval = 60
    /\ clock = 0

\* run_continuous: the call of update_display, one step of it at a time
LoopUpdate ==
    /\ spc = "run"
    /\ \/ /\ at_top
          /\ passes <= MaxPasses
          /\ BeginCycle
       \/ /\ passes < MaxPasses
          /\ \/ StartAttempt
             \/ RetryWait
             \/ PersistentRender
             \/ Recapture
             \/ StandardRender
             \/ DisplayUpdate

\* run_continuous: from the return of update_display to the sleep
LoopSchedule ==
    /\ returned
    /\ IF while_True(result)
       THEN /\ RunCycle
            /\ last'.success = result
            /\ last'.took \in LoopDurations
       ELSE /\ spc = "run"
            /\ spc' = "ended"
            /\ UNCHANGED <<update_interval, clock, intended_update_time,
                           is_first_update, passes, wake, last, c_t, c_out>>
            /\ UNCHANGED <<drvVars, cycVars, extVars>>

NextLoop ==
    \/ LoopUpdate
    \/ LoopSchedule
    \/ Sleep
    \/ Interrupt

SpecLoop == InitLoop /\ [][NextLoop]_vars

\* time.sleep returns, update_display and the calls it makes return
SpecLoopLive ==
    /\ SpecLoop
    /\ WF_vars(LoopUpdate)
    /\ WF_vars(LoopSchedule)
    /\ WF_vars(Sleep)

(***************************************************************************)
(* Claims about IT8951Driver (checked under SpecDrv).                      *)
(***************************************************************************)
hwMode(d) == ~simulated(drv[d])

C2_CountBelowLimit ==
    \A d \in Drivers :
        (lastRes[d].op = "update" /\ lastRes[d].ret) =>
            /\ drv[d].partial_refresh_count >= 0
            /\ drv[d].partial_refresh_count < limit

\* C2 (amended): right after a successful update,
\* 0 <= partial_refresh_count <= eink_partial_refresh_limit.
C2_CountAtMostLimit ==
    \A d \in Drivers :
        (lastRes[d].op = "update" /\ lastRes[d].ret) =>
            /\ drv[d].partial_refresh_count >= 0
            /\ drv[d].partial_refresh_count <= limit

\* a successful partial update that leaves the counter at the limit
C2_Witness ==
    /\ lastRes["hw"].op = "update"
    /\ lastRes["hw"].ret
    /\ lastRes["hw"].kind = "partial"
    /\ drv["hw"].partial_refresh_count = limit

\* C3: a successful update performs a Full refresh if and only if
\* force_full_refresh is true, or the counter had reached the limit, or no
\* update had succeeded before; otherwise it performs a Partial refresh.
C3_DecisionRule ==
    \A d \in Drivers :
        (lastRes[d].op = "update" /\ lastRes[d].ret) =>
            /\ lastRes[d].kind \in {"full", "partial"}
            /\ (lastRes[d].kind = "full") <=>
                  (lastRes[d].force \/ lastRes[d].pre >= limit \/ ~lastRes[d].had)

\* C4: under the same update calls, the driver in simulation/mock mode
\* makes the same Full/Partial decision and holds the same counter as the
\* driver on hardware whose panel writes all succeed.
C4_SimMatchesHardware ==
    (onlyUpd /\ hwOk) =>
        /\ lastRes["sim"].kind = lastRes["hw"].kind
        /\ drv["sim"].partial_refresh_count = drv["hw"].partial_refresh_count

\* C5: an update that returns False leaves partial_refresh_count,
\* last_image and last_update_time as they were, and last_image and
\* last_update_time change only in an update that returns True.
C5_FailedUpdateKeepsState ==
    [][\A d \in Drivers :
          /\ (nCalls' # nCalls /\ lastRes'[d].op = "update" /\ ~lastRes'[d].ret) =>
                /\ drv'[d].partial_refresh_count = drv[d].partial_refresh_count
                /\ drv'[d].last_image = drv[d].last_image
                /\ drv'[d].last_update_time = drv[d].last_update_time
          /\ (\/ drv'[d].last_image # drv[d].last_image
              \/ drv'[d].last_update_time # drv[d].last_update_time) =>
                (lastRes'[d].op = "update" /\ lastRes'[d].ret)]_vars

\* an update whose panel write raised, on a driver that had shown a frame
C5_Witness ==
    /\ lastRes["hw"].op = "update"
    /\ ~lastRes["hw"].ret
    /\ lastRes["hw"].had
    /\ ~hwOk
    /\ drv["hw"].hardware_initialized
    /\ drv["hw"].partial_refresh_count > 0
    /\ drv["hw"].frame_buf # drv["hw"].last_image

(***************************************************************************)
(* Claims about the update cycle (checked under SpecCycle).                *)
(***************************************************************************)
StartEvents == {"start_ok", "start_fail"}
CaptureEvents == {"capture_ok", "capture_fail", "capture_none"}
count(S) == Cardinality({i \in DOMAIN log : log[i] \in S})
only(S) == SelectSeq(log, LAMBDA e : e \in S)
cycleEnded == pc = "idle" /\ cycles >= 1
allStartsFailed == count({"start_fail"}) >= 1 /\ count({"start_ok"}) = 0

C7_OneStopThenOneStart ==
    (/\ cycleEnded
     /\ settings.dashboard_type = "dakboard"
     /\ count({"capture_fail"}) >= 1) =>
        /\ Len(only({"stop"} \cup StartEvents)) = 2
        /\ only({"stop"} \cup StartEvents)[1] = "stop"
        /\ only({"stop"} \cup StartEvents)[2] \in StartEvents
        /\ count(CaptureEvents) = 2
        /\ count({"capture_ok"}) = 0 => result = FALSE

(***************************************************************************)
(* Claims about the scheduler (checked under SpecSched and SpecCalc).      *)
(***************************************************************************)
\* a step of the loop that ran update_display
cycleRan == spc = "run" /\ clock' # clock

\* C8: once intended_update_time is set, the intended time of the next
\* cycle is a function of the intended time of this cycle and of the
\* configuration alone, whenever the cycle completed and whatever it returned.
C8_NextFromIntended ==
    [][(cycleRan /\ intended_update_time # NoTime) =>
          intended_update_time' =
              _calculate_next_update_time(intended_update_time)]_vars

\* a failed cycle that took longer than the interval, scheduled from the
\* intended time of the cycle before
C8_Witness ==
    /\ last.from # NoTime
    /\ ~last.success
    /\ last.took > update_interval
    /\ clock > last.from + update_interval
    /\ intended_update_time = last.from + update_interval

\* C9: when the next intended time is not later than the end of the cycle,
\* the loop does not sleep, and the next cycle is given the next slot of
\* the original schedule (for a whole-minute interval dividing the hour:
\* exactly one interval after the previous slot), not one based on the clock.
C9_OverrunKeepsSchedule ==
    [][(/\ cycleRan
        /\ intended_update_time # NoTime
        /\ _calculate_next_update_time(intended_update_time) <= clock') =>
          /\ spc' = "run"
          /\ wake' = NoTime
          /\ intended_update_time' =
                 _calculate_next_update_time(intended_update_time)
          /\ (update_interval % 60 = 0 /\ 3600 % update_interval = 0) =>
                 intended_update_time' = intended_update_time + update_interval]_vars

\* the loop is back at its top without a sleep, more than a slot behind
C9_Witness ==
    /\ spc = "run"
    /\ last.from # NoTime
    /\ ~last.slept
    /\ update_interval = 60
    /\ intended_update_time = last.from + update_interval
    /\ clock >= intended_update_time + update_interval

\* the first minute boundary after t whose minute of the hour is a
\* multiple of m
FirstAligned(t, m) ==
    LET k0 == t \div 60
        ks == {k \in (k0 + 1)..(k0 + 60) : (k % 60) % m = 0}
    IN  60 * (CHOOSE k \in ks : \A j \in ks : k <= j)

\* C10: for an update_interval that is a whole multiple of 60 seconds,
\* _calculate_next_update_time(t) is the first minute boundary after t
\* whose minute of the hour is a multiple of interval/60, plus 5 seconds
\* for dashboard_type 'dakboard'.
C10_FirstAlignedBoundary ==
    (c_out # NoTime /\ update_interval >= 60 /\ update_interval % 60 = 0) =>
        c_out = FirstAligned(c_t, update_interval \div 60)
                    + (IF settings.dashboard_type = "dakboard" THEN 5 ELSE 0)

(***************************************************************************)
(* Further claims about the update cycle (checked under SpecCycle).        *)
(***************************************************************************)
\* C12: every call of update_display records one attempt and, before it
\* returns, exactly one of success or failure: whenever no cycle is in
\* progress attempts = successes + failures, and a cycle that returned
\* False has been counted as a failure.
C12_AttemptsAreAccounted ==
    (pc = "idle") =>
        /\ metrics.attempt = metrics.success + metrics.failure
        /\ (cycles >= 1 /\ ~result) => metrics.failure >= 1

(***************************************************************************)
(* Further claims about IT8951Driver (checked under SpecDrv).              *)
(***************************************************************************)
\* C14: under any sequence of update, update_partial_region, clear_display,
\* direct_partial_refresh and direct_full_refresh calls,
\* partial_refresh_count never exceeds eink_partial_refresh_limit.
C14_CountNeverExceedsLimit ==
    \A d \in Drivers : drv[d].partial_refresh_count <= limit

\* C15: an operation leaves partial_refresh_count at 0, having changed it,
\* if and only if it performed a full refresh; an operation that performed
\* a full refresh leaves it at 0, one that performed a partial refresh
\* leaves it one higher, and one that refreshed nothing leaves it alone.
C15_ResetIffFullRefresh ==
    \A d \in Drivers :
        (lastRes[d].op # "init") =>
            /\ lastRes[d].kind = "full" => drv[d].partial_refresh_count = 0
            /\ lastRes[d].kind = "partial" =>
                   drv[d].partial_refresh_count = lastRes[d].pre + 1
            /\ lastRes[d].kind = "none" =>
                   drv[d].partial_refresh_count = lastRes[d].pre
            /\ (drv[d].partial_refresh_count = 0 /\ lastRes[d].pre > 0) =>
                   lastRes[d].kind = "full"

\* a direct full refresh on hardware that found the counter above the limit
C15_Witness ==
    /\ lastRes["hw"].op = "direct_full_refresh"
    /\ lastRes["hw"].kind = "full"
    /\ lastRes["hw"].pre > limit
    /\ drv["hw"].partial_refresh_count = 0

(***************************************************************************)
(* Claims about the render session (checked under SpecCycle).              *)
(***************************************************************************)
\* the calls made by the step being taken
emitted ==
    IF pc = "idle" THEN <<>> ELSE SubSeq(log', Len(log) + 1, Len(log'))
made(S) == Cardinality({i \in DOMAIN emitted : emitted[i] \in S})

\* C18: in persistent-browser mode a page reload is attempted at the start
\* of a cycle exactly when browser_refresh_count >= 1440; the counter is
\* the number of capture attempts since the last successful reload or
\* session start (it goes back to 0 only then, and every capture attempt
\* adds one); it exceeds 1440 only after a reload that failed.
C18_ReloadEvery1440 ==
    [][(settings.dashboard_type = "dakboard") =>
          LET before == browser_refresh_count' - made(CaptureEvents) IN
          /\ (made({"refresh"}) = 1) <=>
                 (/\ pc = "render" /\ usesSession
                  /\ browser_refresh_count >= max_renders_before_refresh)
          /\ made({"refresh"}) <= 1
          /\ before \in {0, browser_refresh_count}
          /\ (before = 0 /\ browser_refresh_count # 0) =>
                 made({"refresh", "start_ok"}) >= 1
          /\ made({"start_ok"}) >= 1 => before = 0
          /\ (/\ browser_refresh_count' > max_renders_before_refresh
              /\ browser_refresh_count <= max_renders_before_refresh) =>
                 /\ browser_refresh_count = max_renders_before_refresh
                 /\ made({"refresh"}) = 1
                 /\ before = browser_refresh_count]_vars

\* the cycle after the 1440th capture: the page was reloaded, then captured
C18_Witness ==
    /\ settings.dashboard_type = "dakboard"
    /\ cycles = 2
    /\ persistent_browser_enabled
    /\ log = <<"refresh", "capture_ok", "display">>
    /\ browser_refresh_count = 1

\* every handle of the session is released
released(r) ==
    /\ ~r.is_persistent_browser_running
    /\ r.page = None
    /\ r.context = None
    /\ r.playwright = None

\* C19: after cleanup_persistent_browser has returned the session is not
\* running and the page, context and browser process handles are released,
\* whether or not closing one of them failed, and a second call changes
\* nothing.
C19_CleanupReleasesAll ==
    [][(pc = "idle" /\ pc' = "exited" /\ persistent_browser_enabled) =>
          /\ released(rd')
          /\ \A cl \in CleanupOutcomes :
                 cleanup_persistent_browser(rd', cl) = rd']_vars

C17_ClearResetsCount ==
    /\ \A d \in Drivers :
          (lastRes[d].op = "clear_display" /\ lastRes[d].ret) =>
              /\ lastRes[d].kind = "full"
              /\ drv[d].partial_refresh_count = 0
              /\ (hwMode(d) /\ drv[d].hardware_initialized) =>
                     drv[d].frame_buf = White
    /\ (epdRes.op = "clear_display" /\ epdRes.ret) =>
          /\ epdRes.kind = "full"
          /\ epd.partial_refresh_count = 0
          /\ epd.hardware_initialized => epd.shown = White

(***************************************************************************)
(* Claims about the continuous loop (checked under SpecLoop and            *)
(* SpecLoopLive).                                                          *)
(***************************************************************************)
\* C11: no failed cycle ends the loop.  The loop is left only through the
\* stop signal; the pass that follows a failed update_display schedules
\* the next cycle as any other pass does; and unless the stop signal
\* comes, the next cycle is attempted.
C11_FailedCycleKeepsLoop ==
    /\ [](spc # "ended")
    /\ [][(returned /\ ~result /\ passes' # passes) =>
             /\ spc' \in {"run", "sleep"}
             /\ intended_update_time' =
                    _calculate_next_update_time(
                        schedule_base(intended_update_time, clock'))]_vars
    /\ \A n \in 1..MaxPasses :
          (returned /\ ~result /\ cycles = n /\ n < MaxCycles)
              ~> (metrics.attempt > n \/ spc = "stopped")

\* the second cycle is under way after a first one that failed
C11_Witness ==
    /\ cycles = 1
    /\ ~result
    /\ metrics.failure = 1
    /\ metrics.attempt = 2
    /\ passes = 1
    /\ pc = "render"

\* C13: the stop signal never cuts short a render or a display write that
\* is in progress (when the loop has stopped, update_display has returned),
\* and once the loop has stopped no further cycle starts.
C13_StopWaitsForOperation ==
    /\ [](spc = "stopped" => pc = "idle")
    /\ [][spc = "stopped" => metrics' = metrics]_vars

\* C20: the display commit of cycle N has returned before the render of
\* cycle N+1 begins: at most one cycle is in progress, and a cycle begins
\* only when every cycle begun before has returned and its pass of the
\* loop is over.
C20_OneCycleAtATime ==
    /\ [](metrics.attempt - cycles \in {0, 1})
    /\ []((pc = "idle") <=> (metrics.attempt = cycles))
    /\ [][metrics.attempt' # metrics.attempt =>
             /\ pc = "idle"
             /\ cycles = metrics.attempt
             /\ passes = cycles]_vars

\* the second cycle renders after the first has committed its frame
C20_Witness ==
    /\ metrics.attempt = 2
    /\ cycles = 1
    /\ result
    /\ metrics.success = 1
    /\ passes = 1
    /\ pc = "render"


(***************************************************************************)
(* Intervals that are not a whole number of minutes (checked under         *)
(* SpecCalc).                                                              *)
(***************************************************************************)
\* C27: for update_interval < 60, _calculate_next_update_time(t) is the
\* very next minute boundary after t, plus 5 seconds for dashboard_type
\* 'dakboard', whatever the interval value is.
C27_SubMinuteNextBoundary ==
    (c_out # NoTime /\ update_interval < 60) =>
        /\ c_out = startOfMinute(c_t) + 60
                    + (IF settings.dashboard_type = "dakboard" THEN 5 ELSE 0)
        /\ c_out > c_t

\* an interval of 15 s asked at 59 s past a minute, dakboard
C27_Witness ==
    /\ c_out # NoTime
    /\ update_interval = 15
    /\ c_t = 3599
    /\ settings.dashboard_type = "dakboard"
    /\ c_out = 3605

\* C28: for update_interval >= 60 that is not a multiple of 60,
\* _calculate_next_update_time(t) is exactly t + update_interval: no
\* minute alignment and no dakboard offset.
C28_NonRoundAddsInterval ==
    (c_out # NoTime /\ update_interval >= 60 /\ update_interval % 60 # 0) =>
        c_out = c_t + update_interval

\* interval 90 at the top of an hour, dakboard: one minute thirty later
C28_Witness ==
    /\ c_out # NoTime
    /\ update_interval = 90
    /\ c_t = 3600
    /\ settings.dashboard_type = "dakboard"
    /\ c_out = 3690


(***************************************************************************)
(* _apply_dithering on its own: a bitmap is drawn and dithered twice,      *)
(* after a run on another bitmap or as the first run of the processor.     *)
(***************************************************************************)
\* the bitmaps of the earlier run
OtherImages == {uniform("L", ImgW, ImgH, v) : v \in GrayLevels}

InitDither ==
    /\ DrvIdle
    /\ CycIdle
    /\ settings = [dashboard_type |-> "dakboard", has_url |-> TRUE]
    /\ SchIdle
    /\ MainIdle
    /\ ViewIdle
    /\ ShotIdle
    /\ SimIdle
    /\ TvIdle
    /\ epd_mode = "bw"
    /\ display_rotation = 0
    /\ ip_image \in LImages(ImgW, ImgH)
    /\ ip_fault = "none"
    /\ ip_out = Pending
    /\ ip_prev = NoImage
    /\ ip_run = <<>>

\* a run of _apply_dithering on another bitmap, before the two runs
EarlierDither ==
    /\ ip_prev = NoImage
    /\ ip_run = <<>>
    /\ \E other \in OtherImages :
           ip_prev' = _apply_dithering(ip_prev, other, FALSE)
    /\ UNCHANGED <<epd_mode, display_rotation, ip_image, ip_fault, ip_out,
                   ip_run>>
    /\ UNCHANGED <<drvVars, cycVars, schVars, mainVars, viewVars, shotVars,
                   simVars, tvVars>>

\* a run of _apply_dithering on the bitmap
DitherRun ==
    /\ Len(ip_run) < 2
    /\ LET image == _apply_dithering(ip_prev, ip_image, FALSE) IN
           /\ ip_run' = Append(ip_run, [image |-> image, prev |-> ip_prev])
           /\ ip_prev' = image
    /\ UNCHANGED <<epd_mode, display_rotation, ip_image, ip_fault, ip_out>>
    /\ UNCHANGED <<drvVars, cycVars, schVars, mainVars, viewVars, shotVars,
                   simVars, tvVars>>

NextDither ==
    \/ EarlierDither
    \/ DitherRun

SpecDither == InitDither /\ [][NextDither]_vars

(***************************************************************************)
(* process_for_eink on its own: an image, the settings and the step that   *)
(* raises are drawn, then the function is applied.                         *)
(***************************************************************************)
\* what process_for_eink is given: 'L' bitmaps of the display's size, and
\* bitmaps of one colour in either mode, of that size or wider
ProcInputs ==
    LImages(ImgW, ImgH)
        \cup {uniform(m, w, ImgH, v) :
                 m \in {"L", "RGB"}, w \in {ImgW, ImgW + 1}, v \in GrayLevels}

InitImage ==
    /\ DrvIdle
    /\ CycIdle
    /\ settings = [dashboard_type |-> "dakboard", has_url |-> TRUE]
    /\ SchIdle
    /\ MainIdle
    /\ ViewIdle
    /\ ShotIdle
    /\ SimIdle
    /\ TvIdle
    /\ epd_mode \in {"bw", "gray16"}
    /\ display_rotation \in {0, 90, 180, 270}
    /\ ip_image \in ProcInputs \cup {NoImage}
    /\ ip_fault \in Faults
    /\ ip_out = Pending
    /\ ip_prev = NoImage
    /\ ip_run = <<>>

ProcessForEink ==
    /\ ip_out = Pending
    /\ ip_out' = process_for_eink(ip_prev, ip_image, display_rotation, ip_fault)
    /\ UNCHANGED <<epd_mode, display_rotation, ip_image, ip_fault, ip_prev,
                   ip_run>>
    /\ UNCHANGED <<drvVars, cycVars, schVars, mainVars, viewVars, shotVars,
                   simVars, tvVars>>

NextImage == ProcessForEink

SpecImage == InitImage /\ [][NextImage]_vars

(***************************************************************************)
(* Claims about the image processor (checked under SpecDither and          *)
(* SpecImage).                                                             *)
(***************************************************************************)
\* C23 as stated: after _apply_dithering every pixel outside the last
\* column and the last row is 0 or 255.
C23_AllButLastColumnAndRowBinary ==
    (ip_run # <<>>) =>
        \A y \in 1..(ImgH - 1), x \in 1..(ImgW - 1) :
            ip_run[1].image.px[y][x] \in {0, 255}

\* what a pixel holds at the end: its level plus sixteenths of an error
clipped(level, sixteenths) ==
    LET v == level * 16 + sixteenths
    IN  IF v < 0 THEN 0 ELSE IF v > 255 * 16 THEN 255 ELSE v \div 16

\* C23: _apply_dithering quantizes every pixel outside the first column,
\* the last column and the last row to 0 or 255; the first pixel visited
\* (second of the top row) becomes 255 when its level is above 127, and
\* 3/16 of its error reaches the pixel below-left of it.
C23_InteriorIsBinary ==
    (ip_run # <<>>) =>
        LET out   == ip_run[1].image
            first == ip_image.px[1][2]
            error == first - (IF first > 127 THEN 255 ELSE 0)
        IN  /\ \A y \in 1..(ImgH - 1), x \in 2..(ImgW - 1) :
                   out.px[y][x] \in {0, 255}
            /\ out.px[1][2] = (IF first > 127 THEN 255 ELSE 0)
            /\ out.px[2][1] = clipped(ip_image.px[2][1], 3 * error)

\* a pixel of level 100 below a pixel of level 100 accumulates 131.25 and
\* becomes 255, while the first column keeps its grey
C23_Witness ==
    /\ ip_run # <<>>
    /\ ip_image.px[1][2] = 100
    /\ ip_image.px[2][2] = 100
    /\ ip_image.px[1][1] = 100
    /\ ip_run[1].image.px[1][2] = 0
    /\ ip_run[1].image.px[2][2] = 255
    /\ ip_run[1].image.px[1][1] = 100

\* the grayscale image of the right size and orientation, before dithering
normalized(image, rotation) ==
    LET sized == IF image.size # <<ImgW, ImgH>>
                 THEN resize(image, <<ImgW, ImgH>>) ELSE image
        grey  == IF sized.mode # "L" THEN convert_L(sized) ELSE sized
    IN  IF rotation # 0 THEN rotate(grey, rotation) ELSE grey

\* C24: with settings.epd_mode = 'gray16' process_for_eink does not dither:
\* it returns the full-intensity grayscale image.
C24_Gray16IsNotDithered ==
    (ip_out # Pending /\ ip_image # NoImage /\ ip_fault = "none"
         /\ epd_mode = "gray16") =>
        ip_out = normalized(ip_image, display_rotation)

\* C25: process_for_eink never returns None for an image that is not None,
\* whichever step raises.
C25_NeverNoImage ==
    (ip_out # Pending /\ ip_image # NoImage) => ip_out # NoImage

MaxSaves == 11

InitShots ==
    /\ DrvIdle
    /\ CycIdle
    /\ settings = [dashboard_type |-> "dakboard", has_url |-> TRUE]
    /\ SchIdle
    /\ MainIdle
    /\ ViewIdle
    /\ ImgIdle
    /\ ShotIdle
    /\ SimIdle
    /\ TvIdle

\* _save_persistent_screenshot(image, timestamp): dt is the time since the
\* last call, explicit says that a timestamp (a second earlier than now)
\* is passed, stuck are the files whose unlink() raises
SaveScreenshot ==
    /\ nSaves < MaxSaves
    /\ \E dt \in {0, 1}, explicit \in BOOLEAN :
          LET now       == shotclock + dt
              timestamp == IF explicit /\ now > 0 THEN now - 1 ELSE now
              frame     == nSaves + 1
              file      == [name |-> timestamp, mtime |-> frame, frame |-> frame]
              written   == {f \in shots : f.name # file.name} \cup {file}
              remove    == files_to_remove(written, max_screenshots)
          IN  \E stuck \in SUBSET remove :
                 /\ shots' = written \ (remove \ stuck)
                 /\ latest' = frame
                 /\ saved' = file
                 /\ nSaves' = frame
                 /\ shotclock' = now
                 /\ unlinked' = (unlinked /\ stuck = {})
    /\ UNCHANGED <<drvVars, cycVars, schVars, mainVars, viewVars, imgVars,
                   simVars, tvVars>>

NextShots == SaveScreenshot

SpecShots == InitShots /\ [][NextShots]_vars

MaxStarts == 2

\* Settings.__init__ has run: the defaults, the environment's overrides,
\* then the browser size set to the display size; the renderer exists
InitView ==
    /\ DrvIdle
    /\ CycIdle
    /\ settings = [dashboard_type |-> "dakboard", has_url |-> TRUE]
    /\ SchIdle
    /\ MainIdle
    /\ ImgIdle
    /\ ShotIdle
    /\ SimIdle
    /\ TvIdle
    /\ display_size \in Sizes
    /\ browser_size = display_size
    /\ viewport = NoSize
    /\ vpc = "display"
    /\ starts = 0

\* PiHomeDashboard.__init__: self.display = IT8951Driver(self.settings)
InitDisplay ==
    /\ vpc = "display"
    /\ \E reported \in Sizes \cup {NoSize} :
           display_size' = _init_display(display_size, reported)
    /\ vpc' = "ready"
    /\ UNCHANGED <<browser_size, viewport, starts>>
    /\ UNCHANGED <<drvVars, cycVars, schVars, mainVars, imgVars, shotVars,
                   simVars, tvVars>>

\* settings.load_from_file(config_file)
LoadFromFile ==
    /\ vpc # "display"
    /\ \E env \in Sizes \cup {NoSize} :
           display_size' = load_from_file(display_size, env)
    /\ vpc' = "reloaded"
    /\ UNCHANGED <<browser_size, viewport, starts>>
    /\ UNCHANGED <<drvVars, cycVars, schVars, mainVars, imgVars, shotVars,
                   simVars, tvVars>>

\* renderer.start_persistent_browser(url)
StartSession ==
    /\ vpc # "display"
    /\ starts < MaxStarts
    /\ \E out \in StartOutcomes, cl \in CleanupOutcomes :
          LET st == start_persistent_browser(rd, out, cl) IN
          /\ rd' = st.rd
          /\ viewport' = IF launched(out) THEN browser_size ELSE NoSize
    /\ starts' = starts + 1
    /\ UNCHANGED <<display_size, browser_size, vpc>>
    /\ UNCHANGED <<settings, persistent_browser_enabled, browser_refresh_count,
                   metrics, pc, attempt, phase, log, result, cycles>>
    /\ UNCHANGED <<drvVars, schVars, mainVars, imgVars, shotVars,
                   simVars, tvVars>>

NextView ==
    \/ InitDisplay
    \/ LoadFromFile
    \/ StartSession

SpecView == InitView /\ [][NextView]_vars

\* C29: whenever a start of the render session launches a browser context,
\* the viewport of the context is settings.display_width x
\* settings.display_height as they are at that moment.
C29_ViewportIsPanelSize ==
    [][(starts' = starts + 1 /\ viewport' # NoSize) =>
           viewport' = display_size']_vars


(***************************************************************************)
(* main() in single-update mode: a dashboard is constructed, one           *)
(* update_display runs, sys.exit is called, the finally clause cleans up   *)
(* and the process exits.                                                  *)
(***************************************************************************)
InitUpdate ==
    /\ DrvIdle
    /\ SchIdle
    /\ ViewIdle
    /\ ImgIdle
    /\ ShotIdle
    /\ SimIdle
    /\ TvIdle
    /\ settings \in [dashboard_type : DashboardTypes, has_url : BOOLEAN]
    /\ CycIdle
    /\ mpc = "update"
    /\ exit_code = NoExit
    /\ telemetry = [full_cycle |-> None, display_update |-> None,
                   render |-> None]

\* success = dashboard.update_display(force_full_refresh=True)
MainUpdate ==
    /\ mpc = "update"
    /\ cycles = 0
    /\ \/ BeginCycle
       \/ StartAttempt
       \/ RetryWait
       \/ PersistentRender
       \/ Recapture
       \/ StandardRender
       \/ DisplayUpdate

\* sys.exit(0 if success else 1): SystemExit passes 'except Exception'
MainExit ==
    /\ mpc = "update"
    /\ pc = "idle"
    /\ cycles = 1
    /\ exit_code' = exit_status(result)
    /\ mpc' = "finally"
    /\ UNCHANGED <<telemetry, viewVars, imgVars, shotVars,
                   simVars, tvVars>>
    /\ UNCHANGED <<drvVars, cycVars, schVars>>

\* finally: dashboard.cleanup(); then the process exits with the status
MainFinally ==
    /\ mpc = "finally"
    /\ cleanup
    /\ mpc' = "exited"
    /\ UNCHANGED <<exit_code, telemetry, viewVars, imgVars, shotVars,
                   simVars, tvVars>>

NextUpdate ==
    \/ MainUpdate
    \/ MainExit
    \/ MainFinally

SpecUpdate == InitUpdate /\ [][NextUpdate]_vars

\* C21: in single-update mode sys.exit is called after the one
\* update_display, with 0 if and only if it returned True and with 1
\* otherwise; when the process has exited, PiHomeDashboard.cleanup has run.
C21_ExitStatusIsOutcome ==
    /\ (exit_code # NoExit) =>
           /\ cycles = 1
           /\ exit_code \in {0, 1}
           /\ (exit_code = 0) <=> result
    /\ (mpc = "exited") =>
           /\ exit_code # NoExit
           /\ pc = "exited"
           /\ ~persistent_browser_enabled

\* a cycle that failed after the session was started: status 1, after the
\* cleanup that stopped the session
C21_Witness ==
    /\ mpc = "exited"
    /\ exit_code = 1
    /\ ~result
    /\ rd.loop = FALSE
    /\ "start_ok" \in {log[i] : i \in DOMAIN log}

(***************************************************************************)
(* update_display with its two timers: the cycle as one step, on a         *)
(* dashboard whose display is the driver on hardware, the driver in        *)
(* simulation being given the same calls.                                  *)
(***************************************************************************)
InitTelemetry ==
    /\ limit \in 1..MaxLimit
    /\ \E mock \in BOOLEAN, hwinit \in BOOLEAN :
           drv = [d \in Drivers |->
                     IF d = "sim" THEN NewDriver(mock, mock, FALSE)
                                  ELSE NewDriver(FALSE, TRUE, hwinit)]
    /\ lastRes = [d \in Drivers |->
                     [op |-> "init", ret |-> TRUE, kind |-> "none",
                      force |-> FALSE, pre |-> 0, had |-> FALSE]]
    /\ nCalls = 0
    /\ plain = [d \in Drivers |-> TRUE]
    /\ onlyUpd = TRUE
    /\ hwOk = drv["hw"].hardware_initialized
    /\ committed = [d \in Drivers |-> FALSE]
    /\ EInkIdle
    /\ settings = [dashboard_type |-> "dakboard", has_url |-> TRUE]
    /\ CycIdle
    /\ SchIdle
    /\ ViewIdle
    /\ ImgIdle
    /\ ShotIdle
    /\ SimIdle
    /\ TvIdle
    /\ mpc = "none"
    /\ exit_code = NoExit
    /\ telemetry = [full_cycle |-> None, display_update |-> None,
                   render |-> None]

\* PrometheusTimer.__exit__ for operation_type 'render': the status label of
\* pi_dashboard_render_attempts_total, from "success = exc_type is None"
__exit__(exc_type) == IF exc_type = None THEN "success" ELSE "failure"

\* update_display(force_full_refresh): rendered says whether the render
\* gave an image; the 'full_cycle' timer is recorded in either case, the
\* 'display_update' timer around self.display.update.  The 'render' timer
\* is left without an exception: render() and render_persistent_screenshot()
\* catch every Exception and return None
TimedCycle ==
    /\ cycles < MaxCalls
    /\ nCalls < MaxCalls
    /\ \E force \in BOOLEAN, rendered \in BOOLEAN, image \in Images,
          panel \in PanelOutcomes :
          LET r == [d \in Drivers |->
                      update(drv[d], image, force, None, panel, nCalls + 1)]
              success == r["hw"].ret
          IN  IF rendered
              THEN /\ ApplyDrv("update", force, r, panel)
                   /\ telemetry' = [full_cycle |-> refresh_type(force),
                                    display_update |-> refresh_type(force),
                                    render |-> __exit__(None)]
                   /\ metrics' = [metrics EXCEPT
                                     !.attempt = @ + 1,
                                     !.success = IF success THEN @ + 1 ELSE @,
                                     !.failure = IF success THEN @ ELSE @ + 1]
                   /\ Return(success)
              ELSE /\ telemetry' = [full_cycle |-> refresh_type(force),
                                    display_update |-> None,
                                    render |-> __exit__(None)]
                   /\ metrics' = [metrics EXCEPT !.attempt = @ + 1,
                                                 !.failure = @ + 1]
                   /\ Return(FALSE)
                   /\ UNCHANGED <<limit, drv, lastRes, nCalls, plain, onlyUpd,
                                  hwOk, committed>>
    /\ UNCHANGED <<settings, rd, persistent_browser_enabled,
                   browser_refresh_count, attempt, phase, log>>
    /\ UNCHANGED <<epd, epdRes, mpc, exit_code>>
    /\ UNCHANGED <<schVars, viewVars, imgVars, shotVars,
                   simVars, tvVars>>

NextTelemetry == TimedCycle

SpecTelemetry == InitTelemetry /\ [][NextTelemetry]_vars

\* C22: when a cycle has refreshed the panel, the refresh_type of its
\* 'display_update' and 'full_cycle' timers is the kind of refresh the
\* driver performed.
C22_LabelIsRefreshPerformed ==
    (/\ telemetry.display_update # None
     /\ lastRes["hw"].kind \in {"full", "partial"}) =>
        /\ telemetry.display_update = lastRes["hw"].kind
        /\ telemetry.full_cycle = lastRes["hw"].kind


(***************************************************************************)
(* The intended times move forward (checked under SpecCalc).               *)
(***************************************************************************)
\* C39: for every reference time t and every positive update_interval,
\* _calculate_next_update_time(t) is strictly later than t.
C39_NextIsLater ==
    (c_out # NoTime) => c_out > c_t

\* a reference time one second before a minute boundary, interval one
\* minute, no offset: the boundary itself
C39_Witness ==
    /\ c_out # NoTime
    /\ update_interval = 60
    /\ settings.dashboard_type = "custom"
    /\ c_t = 119
    /\ c_out = 120

\* the largest number of further browser and panel calls and waits that
\* update_display can still make from its present position
steps_left ==
    LET tries == 2 * (max_retries - attempt) + (IF pc = "start" THEN 2 ELSE 1)
    IN  CASE pc \in {"idle", "exited"} -> 0
          [] pc = "display" -> 1
          [] pc = "recapture" -> 2
          [] pc \in {"start", "wait"} /\ phase = "recover" -> 2 + tries
          [] pc = "render" -> 3 + 2 * max_retries
          [] OTHER -> 3 + 2 * max_retries + tries

\* C40: every update_display call terminates (with True or False): within
\* one cycle start_persistent_browser is invoked at most 6 times,
\* render_persistent_screenshot at most twice, and the panel is written at
\* most once; every call or wait made inside the cycle brings the return
\* strictly nearer.
C40_CycleIsBounded ==
    [][/\ count(StartEvents)' <= 6
       /\ count(CaptureEvents)' <= 2
       /\ count({"display"})' <= 1
       /\ (pc \notin {"idle", "exited"}) =>
             /\ steps_left' < steps_left
             /\ steps_left' >= 0
       /\ cycleEnded' => result' \in BOOLEAN]_vars

\* a cycle that needed all six starts and both captures and wrote the panel
C40_Witness ==
    /\ cycleEnded
    /\ count(StartEvents) = 6
    /\ count(CaptureEvents) = 2
    /\ count({"display"}) = 1
    /\ result = TRUE

\* C35: whenever start_persistent_browser returns False, because of an
\* exception or because the verification screenshot was not produced, the
\* session is left not running and holds no browser context and no
\* playwright instance, so failed starts do not accumulate open browsers.
C35_FailedStartHoldsNothing ==
    [][(made({"start_fail"}) >= 1) =>
          /\ ~rd'.is_persistent_browser_running
          /\ rd'.context = None
          /\ rd'.playwright = None
          /\ rd'.openCtx <= rd.openCtx
          /\ rd'.openPw <= rd.openPw]_vars

\* C34: whenever PiHomeDashboard.cleanup runs, every browser session the
\* renderer has running is stopped, for every dashboard type and also after
\* a cycle in which a capture failed: no running session survives cleanup.
C34_NoSessionSurvivesCleanup ==
    [][(pc = "idle" /\ pc' = "exited") =>
          ~rd'.is_persistent_browser_running]_vars

\* C37: a render that yields no image (render_persistent_screenshot or
\* render returned None) is recorded in the render-attempt telemetry with
\* status 'failure', never 'success'.
C37_NoImageIsFailure ==
    (telemetry.render # None /\ telemetry.display_update = None) =>
        telemetry.render = "failure"

\* C33: after every successful IT8951Driver.update in hardware mode,
\* including a partial update restricted to a region, last_image equals the
\* content of the panel frame buffer.
C33_LastImageIsFrameBuffer ==
    (/\ lastRes["hw"].op = "update"
     /\ lastRes["hw"].ret
     /\ ~simulated(drv["hw"])) =>
        drv["hw"].last_image = drv["hw"].frame_buf

\* C36: given the same limit and the same sequence of successful update
\* calls on fresh drivers, EInkDriver.update and IT8951Driver.update make
\* the same Full/Partial decision at every call and hold the same
\* partial_refresh_count after every call.
C36_DriversAgree ==
    [][(/\ onlyUpd'
        /\ nCalls' = nCalls + 1
        /\ drv["hw"].partial_refresh_count = epd.partial_refresh_count
        /\ lastRes'["hw"].ret
        /\ epdRes'.ret) =>
          /\ lastRes'["hw"].kind = epdRes'.kind
          /\ drv'["hw"].partial_refresh_count = epd'.partial_refresh_count]_vars

(***************************************************************************)
(* run_continuous after a stall: the loop is at the top of a pass, behind *)
(* its intended time, and from now on every cycle is shorter than the     *)
(* interval.  _calculate_next_update_time looks at the minute and second  *)
(* of its argument only, so the times are counted from the start of the   *)
(* hour of the earlier of the wall clock and the intended time.           *)
(***************************************************************************)
CatchUpIntervals == {60, 120, 420}
CatchUpDurations == {45, 100, 400}
StallLags == {0, 150, 450}

InitCatchUp ==
    /\ ExtIdle
    /\ DrvIdle
    /\ CycIdle
    /\ settings \in [dashboard_type : SchedTypes, has_url : {TRUE}]
    /\ update_interval \in CatchUpIntervals
    /\ intended_update_time = _calculate_next_update_time(0)
    /\ \E lag \in StallLags : clock = intended_update_time + lag
    /\ is_first_update = FALSE
    /\ spc = "run"
    /\ passes = 0
    /\ wake = NoTime
    /\ last = [slept |-> FALSE, success |-> TRUE, took |-> 0, from |-> NoTime]
    /\ c_t = 0
    /\ c_out = NoTime

\* run_continuous: one pass of the while loop up to the sleep, with a cycle
\* that takes less than the interval
CatchUpCycle ==
    /\ spc = "run"
    /\ \E took \in CatchUpDurations, success \in BOOLEAN :
          LET current_time == clock + took
              next_update_time ==
                  _calculate_next_update_time(
                      schedule_base(intended_update_time, current_time))
              time_until_next_update == next_update_time - current_time
              hour == startOfHour(IF current_time <= next_update_time
                                  THEN current_time ELSE next_update_time)
          IN  /\ took < update_interval
              /\ clock' = current_time - hour
              /\ IF time_until_next_update > 0
                 THEN spc' = "sleep" /\ wake' = next_update_time - hour
                 ELSE spc' = "run" /\ wake' = NoTime
              /\ intended_update_time' = next_update_time - hour
              /\ last' = [slept |-> time_until_next_update > 0,
                          success |-> success, took |-> took,
                          from |-> intended_update_time]
    /\ UNCHANGED <<update_interval, is_first_update, passes, c_t, c_out>>
    /\ UNCHANGED <<drvVars, cycVars, extVars>>

NextCatchUp ==
    \/ CatchUpCycle
    \/ Sleep

\* the loop keeps running: update_display returns and time.sleep ends
SpecCatchUp == InitCatchUp /\ [][NextCatchUp]_vars /\ WF_vars(NextCatchUp)

\* the wall clock is past the intended time of the pass about to start
behind == spc = "run" /\ clock > intended_update_time

\* C38: in run_continuous with an interval that is a multiple of 60, when
\* after a stall every cycle takes less than the interval, the lag between
\* the wall clock and the intended time returns to zero or below and the
\* loop sleeps again: it does not stay in back-to-back overrun forever.
C38_LagReturnsToZero ==
    behind ~> (spc = "sleep")

(***************************************************************************)
(* The simulation outputs.  Without the panel library (or in mock mode)   *)
(* update ends in _simulate_update, which saves the image under temp_dir  *)
(* as display_update_<int(time.time())>_<refresh_type><region>.png.  A     *)
(* process constructs one driver and calls only that one.                  *)
(***************************************************************************)
MaxSimCalls == 11

\* _simulate_update: "filename = f'display_update_{timestamp}_...png'"
filename(timestamp, full_refresh, region) ==
    [ timestamp    |-> timestamp,
      refresh_type |-> IF full_refresh THEN "full" ELSE "partial",
      region       |-> region ]

\* _simulate_update: image.save(filepath); a failure to save is caught
save(dir, file, save_ok) == IF save_ok THEN dir \cup {file} ELSE dir

InitSim ==
    /\ limit \in 1..MaxLimit
    /\ \E mock \in BOOLEAN :
           drv = [d \in Drivers |->
                     IF d = "sim" THEN NewDriver(mock, mock, FALSE)
                                  ELSE NewDriver(FALSE, TRUE, FALSE)]
    /\ lastRes = [d \in Drivers |->
                     [op |-> "init", ret |-> TRUE, kind |-> "none",
                      force |-> FALSE, pre |-> 0, had |-> FALSE]]
    /\ nCalls = 0
    /\ plain = [d \in Drivers |-> TRUE]
    /\ onlyUpd = TRUE
    /\ hwOk = FALSE
    /\ committed = [d \in Drivers |-> FALSE]
    /\ EInkIdle
    /\ settings = [dashboard_type |-> "dakboard", has_url |-> TRUE]
    /\ CycIdle
    /\ SchIdle
    /\ MainIdle
    /\ ViewIdle
    /\ ImgIdle
    /\ ShotIdle
    /\ TvIdle
    /\ temp_dir = {}
    /\ simclock = 0

\* IT8951Driver.update(image, force_full_refresh) in simulation: dt is the
\* time since the last call, save_ok says whether the file could be saved
SimulatedUpdate ==
    /\ epdRes.op = "init"
    /\ nCalls < MaxSimCalls
    /\ \E image \in Images, force \in BOOLEAN, dt \in {0, 1},
          save_ok \in BOOLEAN :
          LET timestamp == simclock + dt
              full == need_full_refresh(drv["sim"], force)
          IN  /\ Apply("update", force,
                       [d \in Drivers |->
                           update(drv[d], image, force, None, "ok", timestamp)],
                       "ok")
              /\ simclock' = timestamp
              /\ temp_dir' = save(temp_dir, filename(timestamp, full, None),
                                  save_ok)
    /\ UNCHANGED <<epd, epdRes>>
    /\ UNCHANGED <<mainVars, viewVars, imgVars, shotVars, tvVars>>

\* EInkDriver.update(image) in simulation
SimulatedEInkUpdate ==
    /\ lastRes["sim"].op = "init"
    /\ nCalls < MaxSimCalls
    /\ \E image \in Images, dt \in {0, 1}, save_ok \in BOOLEAN :
          LET timestamp == simclock + dt
              full == EInk_need_full_refresh(epd, FALSE)
          IN  /\ EInkApply("update",
                           EInk_update(epd, image, FALSE, "ok", timestamp))
              /\ simclock' = timestamp
              /\ temp_dir' = save(temp_dir, filename(timestamp, full, None),
                                  save_ok)
    /\ nCalls' = nCalls + 1
    /\ UNCHANGED <<limit, drv, lastRes, plain, onlyUpd, hwOk, committed>>
    /\ UNCHANGED <<cycVars, schVars>>
    /\ UNCHANGED <<mainVars, viewVars, imgVars, shotVars, tvVars>>

NextSim ==
    \/ SimulatedUpdate
    \/ SimulatedEInkUpdate

SpecSim == InitSim /\ [][NextSim]_vars

\* C31: in simulation mode the number of display_update_* image files kept
\* in the debug location after any number of update calls is bounded by the
\* retention limit (the 10 most recent); older outputs are removed.
C31_SimulationFilesAreBounded ==
    Cardinality(temp_dir) <= max_screenshots

(***************************************************************************)
(* The TimeValidator.  A clock text is what time_pattern matches: an hour  *)
(* of one or two digits, a minute of two digits and AM or PM.  Differences *)
(* of times are whole seconds.                                             *)
(***************************************************************************)
SystemHours == {0, 11, 12, 23}
SystemMinutes == {0, 15, 59}
SystemSeconds == {0, 29, 30, 31, 59}
TextHours == {1, 11, 12}
TextMinutes == {0, 15, 16, 59}

\* _parse_time_text returned None
NoTimeInfo == [hour |-> NoTime, minute |-> NoTime]

\* TimeValidator._parse_time_text for a text that time_pattern matches
_parse_time_text(text) ==
    LET hour == IF text.am_pm = "PM" /\ text.hour # 12 THEN text.hour + 12
                ELSE IF text.am_pm = "AM" /\ text.hour = 12 THEN 0
                ELSE text.hour
    IN  IF ~(0 <= hour /\ hour <= 23 /\ 0 <= text.minute /\ text.minute <= 59)
        THEN NoTimeInfo
        ELSE [hour |-> hour, minute |-> text.minute]

abs(x) == IF x < 0 THEN 0 - x ELSE x

\* round(seconds / 60): Python rounds a half to the even neighbour
round(seconds) ==
    LET q == seconds \div 60
        r == seconds % 60
    IN  IF r < 30 THEN q
        ELSE IF r > 30 THEN q + 1
        ELSE IF q % 2 = 0 THEN q ELSE q + 1

\* TimeValidator._validate_time
_validate_time(time_info, system_time) ==
    LET system == system_time.hour * 3600 + system_time.minute * 60
                      + system_time.second
        displayed_time == time_info.hour * 3600 + time_info.minute * 60
        time_diff == displayed_time - system
        \* "Handle day boundary crossings"
        offset == IF abs(time_diff) > 12 * 3600
                  THEN IF time_diff > 0 THEN time_diff - 86400
                                        ELSE time_diff + 86400
                  ELSE time_diff
        minute_difference == abs(round(offset))
        has_difference == minute_difference > 0
    IN  [done |-> TRUE, success |-> TRUE, warning |-> has_difference,
         error |-> FALSE]

\* TimeValidator.validate_time_from_page, from the text it extracted
validate_time_from_page(text, system_time) ==
    LET displayed_time_info == _parse_time_text(text) IN
    IF displayed_time_info = NoTimeInfo
    THEN [done |-> TRUE, success |-> TRUE, warning |-> TRUE, error |-> FALSE]
    ELSE _validate_time(displayed_time_info, system_time)

InitTime ==
    /\ DrvIdle
    /\ CycIdle
    /\ settings = [dashboard_type |-> "dakboard", has_url |-> TRUE]
    /\ SchIdle
    /\ MainIdle
    /\ ViewIdle
    /\ ImgIdle
    /\ ShotIdle
    /\ SimIdle
    /\ tv_system \in [hour : SystemHours, minute : SystemMinutes,
                       second : SystemSeconds]
    /\ tv_text \in [hour : TextHours, minute : TextMinutes,
                     am_pm : {"AM", "PM"}]
    /\ tv_out = NotValidated

\* one validation of the page against datetime.now()
ValidateTime ==
    /\ ~tv_out.done
    /\ tv_out' = validate_time_from_page(tv_text, tv_system)
    /\ UNCHANGED <<tv_system, tv_text>>
    /\ UNCHANGED <<drvVars, cycVars, schVars>>
    /\ UNCHANGED <<mainVars, viewVars, imgVars, shotVars, simVars>>

NextTime == ValidateTime

SpecTime == InitTime /\ [][NextTime]_vars

\* C32: for every system time (hour, minute, second) and every displayed
\* 12-hour clock text, the TimeValidator reports success with no warning if
\* and only if the displayed hour:minute equals the hour:minute of the
\* system time, and success with a warning whenever it differs.
C32_WarningIffMinuteDiffers ==
    tv_out.done =>
        /\ tv_out.success
        /\ ~tv_out.warning <=>
              (/\ _parse_time_text(tv_text).hour = tv_system.hour
               /\ _parse_time_text(tv_text).minute = tv_system.minute)


====
